---- MODULE Spec2Model ----
(***************************************************************************)
(* Verse-format normalisation, text extraction and the /batch-file         *)
(* orchestrator of src/src/narakeet_tts.py.                                *)
(*                                                                         *)
(* Representation of Python values:                                        *)
(*   str (verse text)  a sequence of tokens; "" is << >>; a token is one    *)
(*                     character of interest ("|", "1", " ") or a word      *)
(*   None              the sentinel None (no verse text equals it)          *)
(*   dict              a function from key strings to values                *)
(*   a non-dict value  a function whose only key is "#scalar": NonDict (a   *)
(*                     number, true, false, null), NonDictSeq and          *)
(*                     NonDictNamed (strings and lists, by what they hold) *)
(*   an exception      Raises(e), a function whose only key is "#raises"    *)
(*   list              a sequence                                           *)
(*   _id, codes, tags  TLA+ strings                                         *)
(***************************************************************************)
EXTENDS Integers, Sequences, FiniteSets, TLC

VARIABLES
    xrec,       \* extraction harness: the verse record under test
    xtype,      \* extraction harness: text_type of the last call ("-" before)
    xout,       \* extraction harness: value returned by the last call
    xnorm,      \* extraction harness: TRUE once the record was normalised
    din,        \* detection harness: slot -> JSON payload (as the caller sees it)
    dran,       \* detection harness: the slots detect_format_and_process ran on
    dout,       \* detection harness: slot -> the list it returned
    fran,       \* detection harness: the slots flatten_chapter_format ran on
    fout        \* detection harness: slot -> the list it returned

VARIABLES
    TRANSLATION_AVAILABLE,  \* module global: googletrans could be imported
    pc,                 \* /batch-file: where the handler is
    req,                \* /batch-file: the query parameters of the request
    verses_data,        \* /batch-file: the detected verse list
    verse_i,            \* /batch-file: i, the 1-based index of the outer loop's verse
    lang_j,             \* /batch-file: 1-based index of the inner loop's language
    item,               \* /batch-file: the item whose synthesis call is in flight
    verse_results,
    verse_had_issues,
    all_results,
    verse_summaries,
    chapters_processed,
    processing_stats,
    response,           \* /batch-file: the HTTP response, once there is one
    now,                \* the wall clock when the latest file name was made, in
                        \* seconds since the first file name of the request
    trace               \* history: one entry per (verse, language) item visited

VARIABLES
    vcall,      \* voice harness: the service asked and the arguments of the calls
    vout,       \* voice harness: the voices returned by the calls so far
    tts_client, \* cloud-TTS service: the module global (None when the client
                \* could not be initialised)
    sreq,       \* cloud-TTS service: the /synthesize/verse request
    scalls,     \* cloud-TTS service: the synthesize_speech calls made
    sresp       \* cloud-TTS service: the HTTP response, once there is one

xvars == <<xrec, xtype, xout, xnorm>>
dvars == <<din, dran, dout, fran, fout>>
bvars == <<TRANSLATION_AVAILABLE, pc, req, verses_data, verse_i, lang_j, item, verse_results,
           verse_had_issues, all_results, verse_summaries, chapters_processed,
           processing_stats, response, now, trace>>
vvars == <<vcall, vout>>
svars == <<tts_client, sreq, scalls, sresp>>
vars == <<xvars, dvars, bvars, vvars, svars>>

----------------------------------------------------------------------------
(* Bounds of the model *)

\* at most this many text-bearing keys in a generated verse record
MaxFields == 2
\* at most this many sub-fields in a generated commentator object: they grow
\* a third as fast as the text-bearing keys
MaxSub == (MaxFields + 1) \div 3
\* at most this many chapter groups in a generated payload
MaxChapters == 2
\* at most this many verses in a generated payload of the detection harness
MaxDetectVerses == 3
\* at most this many (verse, language) items in a generated /batch-file request
MaxItems == 2

----------------------------------------------------------------------------
(* Python values *)

None == <<"None">>
\* None where the other values are TLA+ strings (text_type, a file path)
NoneStr == "None"
EmptyStr == << >>
EmptyDict == << >>
\* a value that is no dict, no string and no list: a number, true, false, null
NonDict == [k \in {"#scalar"} |-> 0]
\* a string or a list that holds none of the keys the code looks for
NonDictSeq == [k \in {"#scalar"} |-> 1]
\* a string or a list that holds 'tej', 'siva' or 'prabhu' (and none of
\* '_id', 'chapter', 'verses')
NonDictNamed == [k \in {"#scalar"} |-> 2]

\* an exception raised where a value would be returned: its class
Raises(e) == [k \in {"#raises"} |-> e]
IsRaise(v) == "#raises" \in DOMAIN v
\* the same where a list would be returned: the marker alone in a sequence
\* (no list of the program holds a marker)
RaisesList(e) == <<Raises(e)>>
IsRaiseList(l) == l # << >> /\ IsRaise(l[1])

\* isinstance(v, dict) for a value that is a dict or NonDict
IsDict(v) == "#scalar" \notin DOMAIN v

\* truth value of a str-or-None: None and "" are falsy
Truthy(v) == v # None /\ v # EmptyStr

\* d.get(k, default)
Get(d, k, default) == IF k \in DOMAIN d THEN d[k] ELSE default

\* the verse text stored under a key path: one word naming its source
Txt(name) == <<name>>

----------------------------------------------------------------------------
(* Field names *)

CurrentKeys == {"sanskrit", "english", "hindi", "gujarati"}
LegacyKeys == {"slok", "transliteration", "sa", "en", "hi", "gu"}
DirectKeys == CurrentKeys \cup LegacyKeys
Commentators == {"tej", "siva", "prabhu", "rams", "sankar",
                 "purohit", "san", "adi", "gambir"}
SubFields == {"st", "sd", "ht", "gt", "et"}
TextTypes == {"sanskrit", "sanskrit_devanagari", "hindi", "gujarati", "english"}

----------------------------------------------------------------------------
(* extract_text_from_gita_json *)

\* faulty variant (sensitivity test): the commentaries are searched from
\* the last one to the first
RECURSIVE FirstNestedReversed(_, _, _)
FirstNestedReversed(verse_data, sources, sub) ==
    IF sources = << >> THEN None
    ELSE LET source == sources[Len(sources)] IN
         IF /\ source \in DOMAIN verse_data
            /\ IsDict(verse_data[source])
            /\ sub \in DOMAIN verse_data[source]
         THEN verse_data[source][sub]
         ELSE FirstNestedReversed(verse_data, SubSeq(sources, 1, Len(sources) - 1), sub)

\* for source in sources: if source in verse_data and
\* isinstance(verse_data[source], dict): if sub in verse_data[source]: return it
RECURSIVE FirstNested(_, _, _)
FirstNested(verse_data, sources, sub) ==
    IF sources = << >> THEN None
    ELSE LET source == Head(sources) IN
         IF /\ source \in DOMAIN verse_data
            /\ IsDict(verse_data[source])
            /\ sub \in DOMAIN verse_data[source]
         THEN verse_data[source][sub]
         ELSE FirstNested(verse_data, Tail(sources), sub)

\* faulty variant (sensitivity test): the legacy field goes before the
\* current one, for hindi
extract_text_legacy_first(verse_data, text_type) ==
    IF text_type = "hindi" /\ "hi" \in DOMAIN verse_data THEN verse_data["hi"]
    ELSE IF text_type = "hindi" /\ Truthy(Get(verse_data, "hindi", EmptyStr))
         THEN verse_data["hindi"]
    ELSE None

extract_text_from_gita_json(verse_data, text_type) ==
    IF text_type = "sanskrit" THEN
        IF Truthy(Get(verse_data, "sanskrit", EmptyStr)) THEN verse_data["sanskrit"]
        ELSE IF Truthy(Get(verse_data, "transliteration", EmptyStr))
             THEN verse_data["transliteration"]
        ELSE IF Truthy(Get(verse_data, "slok", EmptyStr)) THEN verse_data["slok"]
        ELSE IF Truthy(Get(verse_data, "sa", EmptyStr)) THEN verse_data["sa"]
        ELSE FirstNested(verse_data, <<"tej", "siva", "prabhu", "rams", "sankar">>, "st")
    ELSE IF text_type = "sanskrit_devanagari" THEN
        IF Truthy(Get(verse_data, "sanskrit", EmptyStr)) THEN verse_data["sanskrit"]
        ELSE IF Truthy(Get(verse_data, "slok", EmptyStr)) THEN verse_data["slok"]
        ELSE FirstNested(verse_data, <<"tej", "siva", "prabhu", "rams", "sankar">>, "sd")
    ELSE IF text_type = "hindi" THEN
        IF Truthy(Get(verse_data, "hindi", EmptyStr)) THEN verse_data["hindi"]
        ELSE IF "hi" \in DOMAIN verse_data THEN verse_data["hi"]
        ELSE FirstNested(verse_data, <<"tej", "rams", "sankar", "siva", "prabhu">>, "ht")
    ELSE IF text_type = "gujarati" THEN
        IF Truthy(Get(verse_data, "gujarati", EmptyStr)) THEN verse_data["gujarati"]
        ELSE IF "gu" \in DOMAIN verse_data THEN verse_data["gu"]
        ELSE FirstNested(verse_data, <<"tej", "siva", "prabhu">>, "gt")
    ELSE IF text_type = "english" THEN
        IF Truthy(Get(verse_data, "english", EmptyStr)) THEN verse_data["english"]
        ELSE IF "en" \in DOMAIN verse_data THEN verse_data["en"]
        ELSE FirstNested(verse_data,
                 <<"prabhu", "siva", "purohit", "san", "adi", "gambir", "tej">>, "et")
    ELSE None

----------------------------------------------------------------------------
(* convert_to_internal_format *)

\* the keys copied only when present, in the order of the code's ifs
CopiedIfPresent == {"en", "hi", "gu", "sanskrit", "english", "hindi", "gujarati"}

\* On a value that is no dict, line 148 (`key in verse_data`) raises TypeError
\* for a number or null and is a test of the content for a string or a list:
\* one that holds 'tej', 'siva' or 'prabhu' is returned as it is, any other
\* reaches line 152, where .get raises AttributeError.
convert_to_internal_format(verse_data) ==
    IF ~IsDict(verse_data)
    THEN CASE verse_data = NonDict -> Raises("TypeError")
           [] verse_data = NonDictNamed -> verse_data
           [] OTHER -> Raises("AttributeError")
    ELSE IF \E key \in {"tej", "siva", "prabhu"} : key \in DOMAIN verse_data
    THEN verse_data
    ELSE [k \in {"_id", "chapter", "verse", "slok", "transliteration"}
                \cup (CopiedIfPresent \cap DOMAIN verse_data) |->
            CASE k = "_id" -> Get(verse_data, "_id", "")
              [] k = "chapter" -> Get(verse_data, "chapter", 0)
              [] k = "verse" -> Get(verse_data, "verse", 0)
              [] k = "slok" -> Get(verse_data, "slok", EmptyStr)
              [] k = "transliteration" -> Get(verse_data, "transliteration", EmptyStr)
              [] OTHER -> verse_data[k]]

----------------------------------------------------------------------------
(* detect_format_and_process *)

\* A JSON payload is [kind |-> "dict" | "list" | "other", val |-> its value];
\* the elements of a list are dicts or values that are no dict.

\* the least element of a non-empty set of numbers
Least(S) == CHOOSE i \in S : \A j \in S : i <= j

\* verse['chapter'] = chapter_num: the verse afterwards; a value that is no
\* dict does not support item assignment
Stamp(verse, chapter_num) ==
    IF ~IsDict(verse) THEN Raises("TypeError")
    ELSE [k \in DOMAIN verse \cup {"chapter"} |->
             IF k = "chapter" THEN chapter_num ELSE verse[k]]

\* faulty variant (sensitivity test): the chapter number is not written
\* into the nested verses
RECURSIVE FlattenGroupsNoStamp(_, _, _)
FlattenGroupsNoStamp(groups, num_key, default) ==
    IF groups = << >> THEN << >>
    ELSE LET verses == Get(Head(groups), "verses", << >>)
         IN  [i \in 1..Len(verses) |-> convert_to_internal_format(verses[i])]
             \o FlattenGroupsNoStamp(Tail(groups), num_key, default)

\* for chapter in groups: chapter_num = chapter.get(num_key, default)
\*     for verse in chapter.get('verses', []):
\*         verse['chapter'] = chapter_num
\*         flattened.append(convert_to_internal_format(verse))
\* A group that is no dict has no .get (AttributeError), a nested verse that
\* is no dict takes no item (TypeError): the first of them in the order of
\* the loops ends the call.
RECURSIVE FlattenGroups(_, _, _)
FlattenGroups(groups, num_key, default) ==
    IF groups = << >> THEN << >>
    ELSE LET chapter == Head(groups) IN
         IF ~IsDict(chapter) THEN RaisesList("AttributeError")
         ELSE LET chapter_num == Get(chapter, num_key, default)
                  verses == Get(chapter, "verses", << >>)
              IN  IF \E i \in 1..Len(verses) : ~IsDict(verses[i])
                  THEN RaisesList("TypeError")
                  ELSE LET rest == FlattenGroups(Tail(groups), num_key, default)
                       IN  IF IsRaiseList(rest) THEN rest
                           ELSE [i \in 1..Len(verses) |->
                                    convert_to_internal_format(
                                        Stamp(verses[i], chapter_num))]
                                \o rest

\* faulty variant (sensitivity test): the nested verses are also normalised
\* in place
StampGroupsNormalized(groups, num_key, default) ==
    [g \in 1..Len(groups) |->
        IF "verses" \in DOMAIN groups[g]
        THEN [groups[g] EXCEPT !["verses"] =
                 [i \in 1..Len(@) |->
                     convert_to_internal_format(
                         Stamp(@[i], Get(groups[g], num_key, default)))]]
        ELSE groups[g]]

\* the groups as the caller sees them afterwards: the nested verses stamped,
\* up to the group or the verse at which the loops raised
RECURSIVE StampGroups(_, _, _)
StampGroups(groups, num_key, default) ==
    IF groups = << >> THEN << >>
    ELSE LET chapter == Head(groups) IN
         IF ~IsDict(chapter) THEN groups
         ELSE LET verses == Get(chapter, "verses", << >>)
                  odd == {i \in 1..Len(verses) : ~IsDict(verses[i])}
                  done == IF odd = {} THEN Len(verses) ELSE Least(odd) - 1
                  after == IF "verses" \in DOMAIN chapter
                           THEN [chapter EXCEPT !["verses"] =
                                    [i \in 1..Len(@) |->
                                        IF i <= done
                                        THEN Stamp(@[i], Get(chapter, num_key, default))
                                        ELSE @[i]]]
                           ELSE chapter
              IN  IF odd = {}
                  THEN <<after>> \o StampGroups(Tail(groups), num_key, default)
                  ELSE <<after>> \o Tail(groups)

\* faulty variant (sensitivity test): a first element that carries _id is
\* not taken for a chapter group
IsChapterListUnlessId(first_item) ==
    /\ "chapter" \in DOMAIN first_item
    /\ "verses" \in DOMAIN first_item
    /\ "_id" \notin DOMAIN first_item

\* line 372: 'chapter' in first_item and 'verses' in first_item
IsChapterList(first_item) ==
    "chapter" \in DOMAIN first_item /\ "verses" \in DOMAIN first_item

\* lines 393 and 397: [convert_to_internal_format(verse) for verse in data],
\* ended by the first element that raises
ConvertEach(list) ==
    LET out == [i \in 1..Len(list) |-> convert_to_internal_format(list[i])]
        raised == {i \in 1..Len(list) : IsRaise(out[i])}
    IN  IF raised = {} THEN out ELSE <<out[Least(raised)]>>

\* faulty variant (sensitivity test): the value is dropped
UnknownFormatDropped(data) == << >>

\* line 404: return [data] if not isinstance(data, list) else data
UnknownFormat(data) == IF data.kind # "list" THEN <<data.val>> ELSE data.val

\* faulty variant (sensitivity test): the empty list is wrapped like a value
\* that is no list
EmptyInputWrapped(data) == <<data.val>>

\* lines 366-367: if not data: return []
EmptyInput(data) == << >>

\* the value returned, or RaisesList(e) for the exception raised
detect_format_and_process(data) ==
    IF data.kind = "dict" THEN
        IF "chapters" \in DOMAIN data.val
        THEN FlattenGroups(data.val["chapters"], "chapter_number", 1)
        ELSE <<convert_to_internal_format(data.val)>>
    ELSE IF data.kind = "list" THEN
        IF data.val = << >> THEN EmptyInput(data)
        ELSE LET first_item == data.val[1] IN
             IF IsDict(first_item) THEN
                 IF IsChapterList(first_item)
                 THEN FlattenGroups(data.val, "chapter", 0)
                 ELSE IF "_id" \in DOMAIN first_item
                 THEN ConvertEach(data.val)
                 ELSE ConvertEach(data.val)
             ELSE data.val
    ELSE UnknownFormat(data)

\* the caller's payload after the call (the chapter branches write into it)
detect_input_after(data) ==
    IF data.kind = "dict" /\ "chapters" \in DOMAIN data.val
    THEN [data EXCEPT !.val["chapters"] = StampGroups(@, "chapter_number", 1)]
    ELSE IF /\ data.kind = "list"
            /\ data.val # << >>
            /\ IsDict(data.val[1])
            /\ IsChapterList(data.val[1])
    THEN [data EXCEPT !.val = StampGroups(@, "chapter", 0)]
    ELSE data

----------------------------------------------------------------------------
(* flatten_chapter_format: called by no endpoint *)

\* lines 326-334: the nested verses in order, each given its group's chapter
\* number; none is normalised
RECURSIVE FlattenOnly(_)
FlattenOnly(groups) ==
    IF groups = << >> THEN << >>
    ELSE LET chapter_data == Head(groups) IN
         IF ~IsDict(chapter_data) THEN RaisesList("AttributeError")
         ELSE LET chapter_num == Get(chapter_data, "chapter", 0)
                  verses == Get(chapter_data, "verses", << >>)
              IN  IF \E i \in 1..Len(verses) : ~IsDict(verses[i])
                  THEN RaisesList("TypeError")
                  ELSE LET rest == FlattenOnly(Tail(groups))
                       IN  IF IsRaiseList(rest) THEN rest
                           ELSE [i \in 1..Len(verses) |-> Stamp(verses[i], chapter_num)]
                                \o rest

\* line 325: data and 'chapter' in data[0] and 'verses' in data[0], reached
\* when line 321 ('_id' in data[0]) did not return
IsChapterFormat(data) ==
    /\ data.kind = "list"
    /\ data.val # << >>
    /\ IsDict(data.val[1])
    /\ "_id" \notin DOMAIN data.val[1]
    /\ "chapter" \in DOMAIN data.val[1]
    /\ "verses" \in DOMAIN data.val[1]

\* the value returned, or RaisesList(e): line 321 tests `'_id' in data[0]`
\* first, which raises TypeError when data[0] is a number or null
flatten_chapter_format(data) ==
    IF data.kind = "list" THEN
        IF data.val # << >> /\ data.val[1] = NonDict THEN RaisesList("TypeError")
        ELSE IF IsChapterFormat(data) THEN FlattenOnly(data.val)
        ELSE data.val
    ELSE <<data.val>>

\* the caller's payload after the call (line 333 writes into it)
flatten_input_after(data) ==
    IF IsChapterFormat(data)
    THEN [data EXCEPT !.val = StampGroups(@, "chapter", 0)]
    ELSE data

----------------------------------------------------------------------------
(* get_recommended_voice *)

voice_recommendations ==
    [en |-> [male |-> <<"ravi", "dev", "rajesh", "manish", "himesh">>,
             female |-> <<"anushka", "deepika", "neerja", "pooja", "vidya">>],
     hi |-> [male |-> <<"amitabh", "sanjay", "ranbir", "varun", "sunil">>,
             female |-> <<"madhuri", "kareena", "rashmi", "janhvi", "shreya">>],
     gu |-> [male |-> <<"ramesh", "pratik">>,
             female |-> <<"asha", "manasi">>],
     sa |-> [male |-> <<"amitabh", "sanjay", "ranbir">>,
             female |-> <<"madhuri", "kareena", "rashmi">>]]

\* faulty variant (sensitivity test): the last entry of the list is taken
get_recommended_voice_last(language, gender) ==
    LET voices == Get(Get(voice_recommendations, language, voice_recommendations["en"]),
                      gender, <<"amy">>)
    IN  voices[Len(voices)]

get_recommended_voice(language, gender) ==
    Get(Get(voice_recommendations, language, voice_recommendations["en"]),
        gender, <<"amy">>)[1]

\* src/src/narakeet_tts_ffplay.py, lines 96-109: the table of the single-text
\* service has no Gujarati lists
voice_recommendations_ffplay ==
    [en |-> [male |-> <<"ravi", "dev", "rajesh", "manish", "himesh">>,
             female |-> <<"anushka", "deepika", "neerja", "pooja", "vidya">>],
     hi |-> [male |-> <<"amitabh", "sanjay", "ranbir", "varun", "sunil">>,
             female |-> <<"madhuri", "kareena", "rashmi", "janhvi", "shreya">>],
     sa |-> [male |-> <<"amitabh", "sanjay", "ranbir">>,
             female |-> <<"madhuri", "kareena", "rashmi">>]]

\* src/src/narakeet_tts_ffplay.py, lines 93-111
get_recommended_voice_ffplay(language, gender) ==
    Get(Get(voice_recommendations_ffplay, language, voice_recommendations_ffplay["en"]),
        gender, <<"amy">>)[1]

----------------------------------------------------------------------------
(* prepare_sanskrit_text_for_tts, use_transliteration = False *)

Space == " "
Pipe == "|"
Digits == {"0", "1", "2", "3", "4", "5", "6", "7", "8", "9"}
\* the two literal patterns of lines 113 and 114, as the file spells them
DandaPattern == "a-grave yen currency-sign"
DashPattern == "a-circumflex euro right-quote"

\* text.strip() and the final .strip(): leading and trailing whitespace goes
RECURSIVE LStrip(_)
LStrip(t) == IF t # << >> /\ Head(t) = Space THEN LStrip(Tail(t)) ELSE t
RECURSIVE RStrip(_)
RStrip(t) ==
    IF t # << >> /\ t[Len(t)] = Space THEN RStrip(SubSeq(t, 1, Len(t) - 1)) ELSE t
StripText(t) == RStrip(LStrip(t))

\* the number of digits of t from position p on
RECURSIVE DigitRun(_, _)
DigitRun(t, p) ==
    IF p <= Len(t) /\ t[p] \in Digits THEN 1 + DigitRun(t, p + 1) ELSE 0

\* length of the match of \d*\|\|? at position p of t, 0 when there is none
NumberTail(t, p) ==
    LET q == p + DigitRun(t, p) IN
    IF q <= Len(t) /\ t[q] = Pipe
    THEN (q - p) + 1 + (IF q + 1 <= Len(t) /\ t[q + 1] = Pipe THEN 1 ELSE 0)
    ELSE 0

\* length of the match of \|\|?\d*\|\|? at position p of t, 0 when there is
\* none: the optional second bar is taken first and given back on failure
VerseMarkAt(t, p) ==
    IF p > Len(t) \/ t[p] # Pipe THEN 0
    ELSE IF p + 1 <= Len(t) /\ t[p + 1] = Pipe /\ NumberTail(t, p + 2) > 0
         THEN 2 + NumberTail(t, p + 2)
    ELSE IF NumberTail(t, p + 1) > 0 THEN 1 + NumberTail(t, p + 1)
    ELSE 0

\* re.sub(r'\|\|?\d*\|\|?', '', t), scanning from position p
RECURSIVE RemoveVerseMarks(_, _)
RemoveVerseMarks(t, p) ==
    IF p > Len(t) THEN << >>
    ELSE IF VerseMarkAt(t, p) > 0 THEN RemoveVerseMarks(t, p + VerseMarkAt(t, p))
    ELSE <<t[p]>> \o RemoveVerseMarks(t, p + 1)

\* re.sub of a one-token pattern by ' '
ToSpace(t, pattern) == [k \in 1..Len(t) |-> IF t[k] = pattern THEN Space ELSE t[k]]

\* re.sub(r'\s+', ' ', t)
RECURSIVE SqueezeSpaces(_)
SqueezeSpaces(t) ==
    IF Len(t) < 2 THEN t
    ELSE IF t[1] = Space /\ t[2] = Space THEN SqueezeSpaces(Tail(t))
    ELSE <<t[1]>> \o SqueezeSpaces(Tail(t))

\* faulty variant (sensitivity test): the text is returned as it came
prepare_sanskrit_identity(sanskrit_text) == sanskrit_text

prepare_sanskrit_text_for_tts(sanskrit_text) ==
    IF ~Truthy(sanskrit_text) THEN None
    ELSE StripText(SqueezeSpaces(
             ToSpace(ToSpace(ToSpace(RemoveVerseMarks(StripText(sanskrit_text), 1),
                                     Pipe), DandaPattern), DashPattern)))

----------------------------------------------------------------------------
(* translate_text *)

\* what the translation provider does with one request
ProviderOutcomes == {"translated", "unchanged", "empty", "transliterated", "raises"}

\* the provider's text for a request that it answers: a translation, the
\* text as it was sent, nothing, or a transliterated greeting
ProviderText(text, target_code, tr) ==
    CASE tr = "translated" -> <<"[" \o target_code \o "]">> \o text
      [] tr = "unchanged" -> text
      [] tr = "empty" -> EmptyStr
      [] tr = "transliterated" -> <<"hailo">>

\* lang_map.get(target_language, target_language)
LangMap(target_language) == IF target_language = "sa" THEN "hi" ELSE target_language

\* direct_translations and transliteration_fixes; the Hindi phrases are
\* written in Roman letters here
direct_translations ==
    (<<"hello", Space, "world">> :> <<"namaskar", Space, "duniya">>)
    @@ (<<"hello">> :> <<"namaskar">>)
    @@ (<<"world">> :> <<"duniya">>)
    @@ (<<"good", Space, "morning">> :> <<"suprabhat">>)
    @@ (<<"good", Space, "evening">> :> <<"shubh", Space, "sandhya">>)
    @@ (<<"thank", Space, "you">> :> <<"dhanyavad">>)
    @@ (<<"how", Space, "are", Space, "you">> :> <<"aap", Space, "kaise", Space, "hain">>)
    @@ (<<"yes">> :> <<"haan">>)
    @@ (<<"no">> :> <<"nahin">>)
    @@ (<<"please">> :> <<"kripaya">>)

transliteration_fixes ==
    (<<"hailo", Space, "varld">> :> <<"namaskar", Space, "duniya">>)
    @@ (<<"hailo">> :> <<"namaskar">>)
    @@ (<<"varld">> :> <<"duniya">>)
    @@ (<<"gud", Space, "morning">> :> <<"suprabhat">>)
    @@ (<<"gud", Space, "ivning">> :> <<"shubh", Space, "sandhya">>)
    @@ (<<"thaink", Space, "yu">> :> <<"dhanyavad">>)
    @@ (<<"hau", Space, "aar", Space, "yu">> :> <<"aap", Space, "kaise", Space, "hain">>)

\* text.lower(), on the capitalised words of the model
Lower(text) ==
    [k \in 1..Len(text) |->
        CASE text[k] = "Hello" -> "hello"
          [] text[k] = "World" -> "world"
          [] text[k] = "Yes" -> "yes"
          [] OTHER -> text[k]]

\* faulty variant (sensitivity test): the text is lost when the provider
\* raises
translate_text_loses_text(text, target_language, available, tr) ==
    IF ~available THEN text
    ELSE IF target_language = "en" THEN text
    ELSE IF tr = "raises" THEN None
    ELSE LET translated == ProviderText(text, LangMap(target_language), tr) IN
         IF target_language = "hi" THEN
             IF StripText(Lower(text)) \in DOMAIN direct_translations
             THEN direct_translations[StripText(Lower(text))]
             ELSE IF translated \in DOMAIN transliteration_fixes
             THEN transliteration_fixes[translated]
             ELSE translated
         ELSE translated

\* lines 453-532; tr is what the provider does with the request
translate_text(text, target_language, available, tr) ==
    IF ~available THEN text
    ELSE IF target_language = "en" THEN text
    ELSE IF tr = "raises" THEN text
    ELSE LET translated == ProviderText(text, LangMap(target_language), tr) IN
         IF target_language = "hi" THEN
             IF StripText(Lower(text)) \in DOMAIN direct_translations
             THEN direct_translations[StripText(Lower(text))]
             ELSE IF translated \in DOMAIN transliteration_fixes
             THEN transliteration_fixes[translated]
             ELSE translated
         ELSE translated

----------------------------------------------------------------------------
(* synthesize_text_to_speech and create_batch_filename *)

OUTPUT_DIR == "audio_output"

\* what the speech provider does with one request
SynthOutcomes == {"ok", "http_error", "timeout"}

\* datetime.now().strftime("%Y%m%d_%H%M%S"): the clock to the second
Timestamp(clock) == "T" \o ToString(clock)

\* clock is the value of datetime.now() when the name is made
create_batch_filename(verse_id, language, voice, text_type, clock) ==
    "BG_" \o verse_id \o "_" \o language \o "_" \o text_type \o "_" \o voice
          \o "_" \o Timestamp(clock) \o ".mp3"

\* faulty variant (sensitivity test): the response status is not looked at
synthesize_always_saves(text, voice, speed, custom_filename, language, outcome) ==
    IF outcome = "timeout" THEN NoneStr ELSE OUTPUT_DIR \o "/" \o custom_filename

\* the file path, or None: status 200 saves the file; another status, a
\* requests exception (a timeout is one) and any other exception return None
synthesize_text_to_speech(text, voice, speed, custom_filename, language, outcome) ==
    IF outcome = "ok" THEN OUTPUT_DIR \o "/" \o custom_filename ELSE NoneStr

\* what running ffplay does: it exits with 0 or with another code, runs into
\* the 30 s timeout, the binary is not there, or subprocess.run raises any
\* other exception (an ffplay that may not be executed)
PlayOutcomes == {"exit0", "exit1", "timeout", "no_ffplay", "other_error"}

\* faulty variant (sensitivity test): the timeout is not caught
play_audio_unguarded(filename, playout) ==
    CASE playout = "exit0" -> "Audio playback completed successfully"
      [] playout = "exit1" -> "ffplay error"
      [] playout = "timeout" -> "raised"
      [] playout = "no_ffplay" -> "Error: ffplay not found"
      [] OTHER -> "Error playing audio"

\* lines 534-558: the function returns None whatever ffplay does; the value
\* here is the message it prints, "raised" would be an exception leaving it
play_audio_with_ffplay(filename, playout) ==
    CASE playout = "exit0" -> "Audio playback completed successfully"
      [] playout = "exit1" -> "ffplay error"
      [] playout = "timeout" -> "Audio playback timed out"
      [] playout = "no_ffplay" -> "Error: ffplay not found"
      [] OTHER -> "Error playing audio"

----------------------------------------------------------------------------
(* Generated verse records *)

\* the subsets of S with at most n elements
RECURSIVE SubsetsUpTo(_, _)
SubsetsUpTo(S, n) ==
    IF n = 0 \/ S = {} THEN {{}}
    ELSE LET x == CHOOSE y \in S : TRUE
             rest == S \ {x}
         IN  SubsetsUpTo(rest, n) \cup {T \cup {x} : T \in SubsetsUpTo(rest, n - 1)}

\* a commentator object: a non-dict, or a dict of at most MaxSub sub-fields,
\* each empty or holding its own text
SubDicts(c, subs) ==
    LET Pick == [s \in subs |-> {EmptyStr, Txt(c \o "." \o s)}]
    IN  {f \in [subs -> UNION {Pick[s] : s \in subs}] : \A s \in subs : f[s] \in Pick[s]}

CommentatorValues(c) ==
    {NonDict} \cup UNION {SubDicts(c, subs) : subs \in SubsetsUpTo(SubFields, MaxSub)}

ValuesOf(k) ==
    IF k \in Commentators THEN CommentatorValues(k) ELSE {EmptyStr, Txt(k)}

\* all dicts with exactly the keys K, each key holding one of its values
RECURSIVE DictsOver(_)
DictsOver(K) ==
    IF K = {} THEN {EmptyDict}
    ELSE LET k == CHOOSE y \in K : TRUE
         IN  {(k :> v) @@ d : v \in ValuesOf(k), d \in DictsOver(K \ {k})}

WithMeta(d, id, chapter) == ("_id" :> id) @@ ("chapter" :> chapter) @@ d

----------------------------------------------------------------------------
(* Extraction harness: one record, normalised or not, extracted by type *)

XIdle ==
    /\ xrec = EmptyDict
    /\ xtype = "-"
    /\ xout = None
    /\ xnorm = FALSE

DIdle ==
    /\ din = EmptyDict
    /\ dran = {}
    /\ dout = EmptyDict
    /\ fran = {}
    /\ fout = EmptyDict

VIdle ==
    /\ vcall = EmptyDict
    /\ vout = << >>

SIdle ==
    /\ tts_client = NoneStr
    /\ sreq = EmptyDict
    /\ scalls = << >>
    /\ sresp = EmptyDict

BIdle ==
    /\ TRANSLATION_AVAILABLE = FALSE
    /\ pc = "off"
    /\ req = EmptyDict
    /\ verses_data = << >>
    /\ verse_i = 0
    /\ lang_j = 0
    /\ item = EmptyDict
    /\ verse_results = << >>
    /\ verse_had_issues = FALSE
    /\ all_results = << >>
    /\ verse_summaries = << >>
    /\ chapters_processed = {}
    /\ processing_stats = EmptyDict
    /\ response = EmptyDict
    /\ now = 0
    /\ trace = << >>

InitExtract ==
    /\ DIdle
    /\ BIdle
    /\ VIdle
    /\ SIdle
    /\ \E K \in SubsetsUpTo(DirectKeys \cup Commentators, MaxFields) :
           \E d \in DictsOver(K) : xrec = WithMeta(d, "BG1.1", 1)
    /\ xtype = "-"
    /\ xout = None
    /\ xnorm = FALSE

\* one call of extract_text_from_gita_json on the record
Extract ==
    \E t \in TextTypes \cup {"marathi"} :
        /\ xtype' = t
        /\ xout' = extract_text_from_gita_json(xrec, t)
        /\ UNCHANGED <<xrec, xnorm, dvars, bvars, vvars, svars>>

\* the record passes through convert_to_internal_format
Normalize ==
    /\ ~xnorm
    /\ xrec' = convert_to_internal_format(xrec)
    /\ xnorm' = TRUE
    /\ xtype' = "-"
    /\ xout' = None
    /\ UNCHANGED <<dvars, bvars, vvars, svars>>

NextExtract == Extract \/ Normalize

SpecExtract == InitExtract /\ [][NextExtract]_vars

----------------------------------------------------------------------------
(* Detection harness: the same logical verses in the three accepted shapes *)

Chapters == {1, 2}

\* logical verses, without their chapter number
DetectVerses ==
    { [_id |-> "BG1.1", english |-> Txt("english"), hindi |-> Txt("hindi")],
      [_id |-> "BG1.2", verse |-> 2, sa |-> Txt("sa"), note |-> Txt("note")],
      [_id |-> "BG2.1", hi |-> EmptyStr, tej |-> [ht |-> Txt("tej.ht")]] }

RECURSIVE SeqsUpTo(_, _)
SeqsUpTo(S, n) ==
    IF n = 0 THEN {<< >>}
    ELSE LET shorter == SeqsUpTo(S, n - 1)
         IN  shorter \cup {<<x>> \o q : x \in S, q \in {r \in shorter : Len(r) = n - 1}}

\* the ways to cut vs into at most n consecutive chapter groups
RECURSIVE Groupings(_, _)
Groupings(vs, n) ==
    (IF vs = << >> THEN {<< >>} ELSE {})
    \cup (IF n = 0 THEN {}
          ELSE UNION {
                 {<<[chapter |-> c, verses |-> SubSeq(vs, 1, k)]>> \o rest :
                     c \in Chapters,
                     rest \in Groupings(SubSeq(vs, k + 1, Len(vs)), n - 1)} :
                 k \in 0..Len(vs)})

LogicalInputs ==
    UNION {Groupings(vs, MaxChapters) : vs \in SeqsUpTo(DetectVerses, MaxDetectVerses)}

\* the verses of group g as they are nested in a payload: with or without
\* their own copy of the chapter number
Nested(group, carry) ==
    IF carry THEN [i \in 1..Len(group.verses) |-> Stamp(group.verses[i], group.chapter)]
    ELSE group.verses

RECURSIVE FlatVerses(_)
FlatVerses(groups) ==
    IF groups = << >> THEN << >>
    ELSE Nested(Head(groups), TRUE) \o FlatVerses(Tail(groups))

\* flat array of verse objects
FlatShape(groups) == [kind |-> "list", val |-> FlatVerses(groups)]

\* array of {chapter, verses: [...]} objects
GroupedShape(groups, carry) ==
    [kind |-> "list",
     val |-> [g \in 1..Len(groups) |->
                 [chapter |-> groups[g].chapter, verses |-> Nested(groups[g], carry)]]]

\* object with top-level chapters: [{chapter_number, verses: [...]}]
ChaptersShape(groups, carry) ==
    [kind |-> "dict",
     val |-> [chapters |->
                 [g \in 1..Len(groups) |->
                     [chapter_number |-> groups[g].chapter,
                      verses |-> Nested(groups[g], carry)]]]]

\* array of chapter documents {_id, chapter, verses: [...]}
DocumentsShape(groups, carry) ==
    [kind |-> "list",
     val |-> [g \in 1..Len(groups) |->
                 [_id |-> "CH" \o ToString(groups[g].chapter),
                  chapter |-> groups[g].chapter,
                  verses |-> Nested(groups[g], carry)]]]

\* the other payloads: a scalar, lists that begin with a value that is no
\* dict, a list of records without _id, a single verse object, and lists and
\* chapter groups that hold a value that is no dict after a verse or a group
OddPayloads ==
    << [kind |-> "other", val |-> NonDict],
      [kind |-> "list", val |-> <<NonDict>>],
      [kind |-> "list", val |-> <<NonDictSeq, [_id |-> "BG1.1", chapter |-> 1]>>],
      [kind |-> "list",
       val |-> <<[_id |-> "BG1.1", chapter |-> 1, hindi |-> Txt("hindi")], NonDict>>],
      [kind |-> "list",
       val |-> <<[_id |-> "BG1.1", chapter |-> 1, hindi |-> Txt("hindi")], NonDictSeq,
                 NonDict>>],
      [kind |-> "list",
       val |-> <<[chapter |-> 1, english |-> Txt("english")], NonDictNamed>>],
      [kind |-> "list",
       val |-> <<[chapter |-> 1,
                  verses |-> <<[_id |-> "BG1.1"], NonDict, [_id |-> "BG1.2"]>>],
                 [chapter |-> 2, verses |-> <<[_id |-> "BG2.1"]>>]>>],
      [kind |-> "list",
       val |-> <<[chapter |-> 1, verses |-> <<[_id |-> "BG1.1"]>>], NonDict,
                 [chapter |-> 2, verses |-> <<[_id |-> "BG2.1"]>>]>>],
      [kind |-> "dict",
       val |-> [chapters |->
                   <<[chapter_number |-> 2,
                      verses |-> <<[_id |-> "BG2.1", hi |-> Txt("hi")]>>],
                     NonDict>>]],
      [kind |-> "dict",
       val |-> [chapters |-> <<[chapter_number |-> 1, verses |-> <<NonDictSeq>>]>>]],
      [kind |-> "list",
       val |-> <<NonDict, [_id |-> "BG1.1", chapter |-> 1, english |-> Txt("english")]>>],
      [kind |-> "list",
       val |-> <<[chapter |-> 1, english |-> Txt("english"), note |-> Txt("note")]>>],
      [kind |-> "list",
       val |-> <<[_id |-> "BG1.1", chapter |-> 1, hindi |-> Txt("hindi")],
                 [chapter |-> 2, verses |-> << [_id |-> "BG2.1"] >>]>>],
       [kind |-> "list", val |-> << >>],
       [kind |-> "dict",
        val |-> [_id |-> "BG1.1", chapter |-> 1, hi |-> Txt("hi"), note |-> Txt("note")]],
       [kind |-> "dict",
        val |-> [_id |-> "BG2.1", hi |-> EmptyStr, tej |-> [ht |-> Txt("tej.ht")]]] >>

ShapeSlots == {"flat", "grouped", "chapters"}

InitDetect ==
    /\ XIdle
    /\ BIdle
    /\ VIdle
    /\ SIdle
    /\ \/ \E groups \in LogicalInputs, carry \in BOOLEAN :
              \/ din = [flat |-> FlatShape(groups),
                        grouped |-> GroupedShape(groups, carry),
                        chapters |-> ChaptersShape(groups, carry)]
              \/ din = [documents |-> DocumentsShape(groups, carry)]
       \/ \E k \in 1..Len(OddPayloads) : din = [odd |-> OddPayloads[k]]
    /\ dran = {}
    /\ dout = [s \in DOMAIN din |-> << >>]
    /\ fran = {}
    /\ fout = [s \in DOMAIN din |-> << >>]

\* The list flatten_chapter_format returned is made of the caller's objects:
\* the payload itself (lines 323 and 340, `return data`), the payload in a new
\* list (line 340, `[data]`), or the nested verses (line 334). What the
\* caller sees in it after a later write into the payload `after`:
flatten_output_after(data, returned, after) ==
    IF IsRaiseList(returned) THEN returned
    ELSE IF data.kind # "list" THEN <<after.val>>
    ELSE IF IsChapterFormat(data) THEN returned
    ELSE after.val

\* one call of detect_format_and_process on the payload of slot s; the
\* chapter numbers it writes show in the list flatten_chapter_format
\* returned for s before
Detect(s) ==
    /\ s \notin dran
    /\ dout' = [dout EXCEPT ![s] = detect_format_and_process(din[s])]
    /\ din' = [din EXCEPT ![s] = detect_input_after(din[s])]
    /\ dran' = dran \cup {s}
    /\ fout' = IF s \in fran
               THEN [fout EXCEPT ![s] = flatten_output_after(din[s], @,
                                                             detect_input_after(din[s]))]
               ELSE fout
    /\ UNCHANGED <<fran, xvars, bvars, vvars, svars>>

NextDetect == \E s \in DOMAIN din : Detect(s)

SpecDetect == InitDetect /\ [][NextDetect]_vars

----------------------------------------------------------------------------
(* Both detectors on one payload: the grouped list, the list of chapter *)
(* documents, or one of the other payloads                              *)

InitFlatten ==
    /\ XIdle
    /\ BIdle
    /\ VIdle
    /\ SIdle
    /\ \/ \E groups \in LogicalInputs, carry \in BOOLEAN :
              \/ din = [grouped |-> GroupedShape(groups, carry)]
              \/ din = [documents |-> DocumentsShape(groups, carry)]
       \/ \E k \in 1..Len(OddPayloads) : din = [odd |-> OddPayloads[k]]
    /\ dran = {}
    /\ dout = [s \in DOMAIN din |-> << >>]
    /\ fran = {}
    /\ fout = [s \in DOMAIN din |-> << >>]

\* one call of flatten_chapter_format on the payload of slot s
Flatten(s) ==
    /\ s \notin fran
    /\ fout' = [fout EXCEPT ![s] = flatten_chapter_format(din[s])]
    /\ din' = [din EXCEPT ![s] = flatten_input_after(din[s])]
    /\ fran' = fran \cup {s}
    /\ UNCHANGED <<dran, dout, xvars, bvars, vvars, svars>>

NextFlatten == \E s \in DOMAIN din : Detect(s) \/ Flatten(s)

SpecFlatten == InitFlatten /\ [][NextFlatten]_vars

----------------------------------------------------------------------------
(* Voice harness: get_recommended_voice of either service, called again and *)
(* again with the same arguments                                            *)

\* at most this many calls with the same arguments
MaxCalls == 2

VoiceServices == {"narakeet_tts", "narakeet_tts_ffplay"}
\* the codes of the tables, and two codes of no table
VoiceLanguages == {"en", "hi", "gu", "sa", "fr", "mr"}
\* the genders of the tables, another word and the empty string
VoiceGenders == {"male", "female", "neutral", ""}

InitVoice ==
    /\ XIdle
    /\ DIdle
    /\ BIdle
    /\ SIdle
    /\ vcall \in [service : VoiceServices, language : VoiceLanguages,
                  gender : VoiceGenders]
    /\ vout = << >>

\* one call of get_recommended_voice(language, gender) of the service
GetVoice ==
    /\ Len(vout) < MaxCalls
    /\ vout' = Append(vout,
                      IF vcall.service = "narakeet_tts"
                      THEN get_recommended_voice(vcall.language, vcall.gender)
                      ELSE get_recommended_voice_ffplay(vcall.language, vcall.gender))
    /\ UNCHANGED <<vcall, xvars, dvars, bvars, svars>>

NextVoice == GetVoice

SpecVoice == InitVoice /\ [][NextVoice]_vars

----------------------------------------------------------------------------
(* The cloud-TTS service of src/src/main.py: POST /synthesize/verse.          *)
(* A text of this service is a sequence of tokens (words, numbers and        *)
(* punctuation marks); the white space between two tokens is implied, and an *)
(* SSML tag is one token.                                                    *)

Danda == "danda"
DoubleDanda == "double-danda"
\* a token that is a run of digits (\d+)
IsNumber(tok) == tok \in {"1", "2", "3"}
\* a token that begins with a capital letter and has a second character
\* ([A-Z]\w+)
IsCapitalized(tok) == tok \in {"Sanjaya", "Dhritarashtra", "Kurukshetra", "Pandavas",
                               "King", "The", "Chapter", "Verse", "Unknown"}

SayAs(number) == "<say-as interpret-as=cardinal>" \o number \o "</say-as>"
Break(time) == "<break time=" \o time \o "/>"

\* re.sub(word + r'\s+(\d+)', word + ' <say-as interpret-as="cardinal">\1</say-as>', text)
RECURSIVE SayNumberAfter(_, _)
SayNumberAfter(text, word) ==
    IF Len(text) < 2 THEN text
    ELSE IF text[1] = word /\ IsNumber(text[2])
    THEN <<word, SayAs(text[2])>> \o SayNumberAfter(SubSeq(text, 3, Len(text)), word)
    ELSE <<text[1]>> \o SayNumberAfter(Tail(text), word)

\* re.sub(mark, '<break time=.../>', text): every mark is replaced by a break
ReplaceByBreak(text, mark, time) ==
    [k \in 1..Len(text) |-> IF text[k] = mark THEN Break(time) ELSE text[k]]

\* re.sub(r'([marks])\s*', r'\1<break time=.../>', text): a break follows
\* every mark
RECURSIVE BreakAfter(_, _, _)
BreakAfter(text, marks, time) ==
    IF text = << >> THEN << >>
    ELSE (IF Head(text) \in marks THEN <<Head(text), Break(time)>> ELSE <<Head(text)>>)
         \o BreakAfter(Tail(text), marks, time)

\* re.sub(r'\bO\s+([A-Z]\w+)',
\*        r'<emphasis level="strong">O <break time="0.2s"/>\1</emphasis>', text)
RECURSIVE EmphasizeVocative(_)
EmphasizeVocative(text) ==
    IF Len(text) < 2 THEN text
    ELSE IF text[1] = "O" /\ IsCapitalized(text[2])
    THEN <<"<emphasis level=strong>", "O", Break("0.2s"), text[2], "</emphasis>">>
         \o EmphasizeVocative(SubSeq(text, 3, Len(text)))
    ELSE <<text[1]>> \o EmphasizeVocative(Tail(text))

\* lines 67-72
name_replacements ==
    [Sanjaya |-> "<phoneme alphabet=ipa ph=sanjaya>Sanjaya</phoneme>",
     Dhritarashtra |-> "<phoneme alphabet=ipa ph=dhritarashtra>Dhritarashtra</phoneme>",
     Kurukshetra |-> "<phoneme alphabet=ipa ph=kurukshetra>Kurukshetra</phoneme>",
     Pandavas |-> "<phoneme alphabet=ipa ph=pandavas>Pandavas</phoneme>"]

\* lines 74-75
ReplaceNames(text) ==
    [k \in 1..Len(text) |->
        IF text[k] \in DOMAIN name_replacements THEN name_replacements[text[k]]
        ELSE text[k]]

\* line 77
EmphasizeVerbs(text) ==
    [k \in 1..Len(text) |->
        IF text[k] \in {"asked", "said", "spoke", "declared", "inquired"}
        THEN "<emphasis level=moderate>" \o text[k] \o "</emphasis>"
        ELSE text[k]]

\* lines 37-87; the SSML document is a sequence of tokens as well
create_natural_ssml(text, language) ==
    IF text = << >> THEN << >>
    ELSE IF language = "hi-IN"
    THEN <<"<speak>", "<prosody rate=0.92 pitch=+1st volume=+6dB>",
           "<emphasis level=reduced>">>
         \o ReplaceByBreak(
                ReplaceByBreak(
                    SayNumberAfter(SayNumberAfter(text, "adhyaya"), "shloka"),
                    Danda, "0.7s"),
                DoubleDanda, "1.2s")
         \o <<"</emphasis>", "</prosody>", "</speak>">>
    ELSE <<"<speak>", "<prosody rate=0.93 pitch=+0.5st volume=+5dB>",
           "<emphasis level=moderate>", "<prosody range=15%>">>
         \o EmphasizeVerbs(ReplaceNames(EmphasizeVocative(
                BreakAfter(
                    BreakAfter(
                        BreakAfter(
                            SayNumberAfter(SayNumberAfter(text, "Chapter"), "Verse"),
                            {".", "!", "?"}, "1.0s"),
                        {",", ";"}, "0.5s"),
                    {":"}, "0.7s"))))
         \o <<"</prosody>", "</emphasis>", "</prosody>", "</speak>">>

\* faulty variant (sensitivity test): the Hindi text goes before the English
AuthorTextHindiFirst(author_data) ==
    IF Truthy(Get(author_data, "ht", None)) THEN author_data["ht"]
    ELSE IF Truthy(Get(author_data, "et", None)) THEN author_data["et"]
    ELSE Get(author_data, "sc", EmptyStr)

\* line 102: author_data.get('et') or author_data.get('ht')
\*           or author_data.get('sc', '')
AuthorText(author_data) ==
    IF Truthy(Get(author_data, "et", None)) THEN author_data["et"]
    ELSE IF Truthy(Get(author_data, "ht", None)) THEN author_data["ht"]
    ELSE Get(author_data, "sc", EmptyStr)

\* str(verse_data.get(key, 'Unknown')) of lines 107-113
NumberOrUnknown(verse_data, key) ==
    IF key \in DOMAIN verse_data THEN ToString(verse_data[key]) ELSE "Unknown"

\* lines 110-115: f"{intro}. {text}"
FullText(verse_data, language, text) ==
    (IF language = "hi-IN"
     THEN <<"adhyaya", NumberOrUnknown(verse_data, "chapter"), ",",
            "shloka", NumberOrUnknown(verse_data, "verse")>>
     ELSE <<"Chapter", NumberOrUnknown(verse_data, "chapter"), ",",
            "Verse", NumberOrUnknown(verse_data, "verse")>>)
    \o <<".">> \o text

\* lines 118-133
ultra_voices ==
    ("en-IN" :> << [name |-> "en-IN-Studio-B", gender |-> "MALE"],
                   [name |-> "en-IN-Studio-C", gender |-> "FEMALE"],
                   [name |-> "en-IN-Neural2-B", gender |-> "MALE"],
                   [name |-> "en-IN-Neural2-A", gender |-> "FEMALE"],
                   [name |-> "en-IN-Neural2-C", gender |-> "MALE"],
                   [name |-> "en-IN-Neural2-D", gender |-> "FEMALE"] >>)
    @@ ("hi-IN" :> << [name |-> "hi-IN-Neural2-A", gender |-> "FEMALE"],
                      [name |-> "hi-IN-Neural2-B", gender |-> "MALE"],
                      [name |-> "hi-IN-Neural2-C", gender |-> "MALE"],
                      [name |-> "hi-IN-Neural2-D", gender |-> "FEMALE"] >>)

\* lines 135-140; voice_name is None (or empty) when the caller names no voice
SelectedVoice(language, voice_name) ==
    LET available_voices == Get(ultra_voices, language, ultra_voices["en-IN"])
        named == {k \in 1..Len(available_voices) : available_voices[k].name = voice_name}
    IN  IF voice_name # NoneStr /\ voice_name # "" /\ named # {}
        THEN available_voices[CHOOSE k \in named : \A j \in named : k <= j]
        ELSE available_voices[1]

\* lines 151-168; the rates, pitch and gain are in hundredths
AudioConfig(quality) ==
    IF quality = "ultra"
    THEN [audio_encoding |-> "LINEAR16", speaking_rate |-> 93, pitch |-> 50,
          volume_gain_db |-> 400, sample_rate_hertz |-> 48000,
          effects_profile_id |-> <<"large-home-entertainment-class-device">>]
    ELSE [audio_encoding |-> "MP3", speaking_rate |-> 90, pitch |-> 0,
          volume_gain_db |-> 200, sample_rate_hertz |-> 24000,
          effects_profile_id |-> <<"headphone-class-device">>]

\* lines 144-174: the arguments of tts_client.synthesize_speech
SynthesisCall(verse_data, language, voice_name, quality, text) ==
    [input |-> create_natural_ssml(FullText(verse_data, language, text), language),
     voice |-> [language_code |-> language,
                name |-> SelectedVoice(language, voice_name).name,
                ssml_gender |-> SelectedVoice(language, voice_name).gender],
     audio_config |-> AudioConfig(quality)]

\* what the cloud provider does with one call
CloudOutcomes == {"ok", "raises"}

\* lines 176-198: the streaming response for the provider's audio
AudioResponse(verse_data, voice_name, language, quality, audio_content) ==
    [status |-> 200,
     body |-> audio_content,
     media_type |-> IF quality = "ultra" THEN "audio/wav" ELSE "audio/mpeg",
     filename |-> "verse_" \o Get(verse_data, "_id", "unknown") \o "_ultra."
                      \o (IF quality = "ultra" THEN "wav" ELSE "mp3"),
     verse_id |-> Get(verse_data, "_id", "unknown"),
     voice_used |-> SelectedVoice(language, voice_name).name,
     quality |-> quality,
     sample_rate |-> IF quality = "ultra" THEN "48000" ELSE "24000"]

\* lines 200-202: every exception raised inside the try block, the
\* HTTPException of line 105 included, is answered with status 500 and
\* str(e) as its detail (for an HTTPException: "<status_code>: <detail>")
ServerError(detail) == [status |-> 500, detail |-> detail]

\* line 104: if not text
NoText(text) == ~Truthy(text)

\* lines 97-202: the response of the handler and the provider calls it makes
VerseResponse(client, verse_data, author, language, voice_name, quality, outcome) ==
    IF client = NoneStr
    THEN [resp |-> [status |-> 503, detail |-> "TTS service unavailable"],
          calls |-> << >>]
    ELSE IF ~IsDict(Get(verse_data, author, EmptyDict))
    THEN [resp |-> ServerError("object has no attribute 'get'"), calls |-> << >>]
    ELSE IF NoText(AuthorText(Get(verse_data, author, EmptyDict)))
    THEN [resp |-> ServerError("400: No text found for author: " \o author),
          calls |-> << >>]
    ELSE IF outcome = "raises"
    THEN [resp |-> ServerError("provider error"),
          calls |-> <<SynthesisCall(verse_data, language, voice_name, quality,
                                    AuthorText(verse_data[author]))>>]
    ELSE [resp |-> AudioResponse(verse_data, voice_name, language, quality, "audio"),
          calls |-> <<SynthesisCall(verse_data, language, voice_name, quality,
                                    AuthorText(verse_data[author]))>>]

\* the texts of the sub-fields of an author object
AuthorTexts ==
    [et |-> <<"The", "King", "asked", ":", "O", "Sanjaya", "!">>,
     ht |-> <<"ht", Danda, "ht", DoubleDanda>>,
     sc |-> <<"sc">>]

\* the author objects: every sub-field is absent, null, empty or its text
AuthorObjects ==
    UNION {[subs -> {None, EmptyStr}] : subs \in SUBSET {"et", "ht", "sc"}}
    \cup UNION {{f \in [subs -> {None, EmptyStr, <<"text">>}] :
                    \E s \in subs : f[s] = <<"text">>} : subs \in SUBSET {"et", "ht", "sc"}}

\* an author object with the texts of its sub-fields filled in
Filled(obj) ==
    [s \in DOMAIN obj |-> IF obj[s] = <<"text">> THEN AuthorTexts[s] ELSE obj[s]]

\* the verses of the requests: with and without _id, chapter and verse, the
\* entry of purohit absent, no object, or an author object
ServiceVerses ==
    LET bases == {[_id |-> "BG1.1", chapter |-> 1, verse |-> 1], [chapter |-> 2]}
    IN  bases
        \cup {("purohit" :> NonDict) @@ b : b \in bases}
        \cup {("purohit" :> Filled(obj)) @@ b : b \in bases, obj \in AuthorObjects}

InitVerse ==
    /\ XIdle
    /\ DIdle
    /\ BIdle
    /\ VIdle
    /\ tts_client \in {"client", NoneStr}
    /\ sreq = EmptyDict
    /\ scalls = << >>
    /\ sresp = EmptyDict

\* lines 89-202: one request to POST /synthesize/verse
synthesize_verse ==
    /\ sresp = EmptyDict
    /\ \E verse_data \in ServiceVerses, author \in {"purohit", "tej"},
          language \in {"en-IN", "hi-IN", "fr-FR"},
          voice_name \in {NoneStr, "en-IN-Neural2-B", "en-IN-Wavenet-A"},
          quality \in {"ultra", "standard"}, outcome \in CloudOutcomes :
        /\ sreq' = [verse_data |-> verse_data, author |-> author,
                    language |-> language, voice_name |-> voice_name,
                    quality |-> quality, provider |-> outcome]
        /\ sresp' = VerseResponse(tts_client, verse_data, author, language,
                                  voice_name, quality, outcome).resp
        /\ scalls' = VerseResponse(tts_client, verse_data, author, language,
                                   voice_name, quality, outcome).calls
    /\ UNCHANGED <<tts_client, xvars, dvars, bvars, vvars>>

NextVerse == synthesize_verse

SpecVerse == InitVerse /\ [][NextVerse]_vars

----------------------------------------------------------------------------
(* /batch-file: text resolution of one (verse, language) item *)

\* faulty variant (sensitivity test): the last branch takes every other code
SupportedLanguagesOrAny == {"sa", "hi", "gu", "en", "fr"}

SupportedLanguages == {"sa", "hi", "gu", "en"}

\* lang.strip(), on the language codes of the model
StripLang(lang) == IF lang = " hi" THEN "hi" ELSE lang

\* faulty variant (sensitivity test): the translated text keeps the tag of the
\* primary source
TranslateFromEnglishUntagged(s, verse_data, target, tag, available, tr) ==
    LET english_text == extract_text_from_gita_json(verse_data, "english") IN
    IF Truthy(english_text) /\ available
    THEN [text |-> translate_text(english_text, target, available, tr),
          text_type |-> s.text_type, fallback_used |-> TRUE, translate_calls |-> 1]
    ELSE s

\* lines 786-796 and 814-823: english_text = extract(...'english');
\* if english_text and TRANSLATION_AVAILABLE: text = translate_text(...)
TranslateFromEnglish(s, verse_data, target, tag, available, tr) ==
    LET english_text == extract_text_from_gita_json(verse_data, "english") IN
    IF Truthy(english_text) /\ available
    THEN [text |-> translate_text(english_text, target, available, tr),
          text_type |-> tag, fallback_used |-> TRUE, translate_calls |-> 1]
    ELSE s

\* lines 734-739: the primary Sanskrit source and its tag
PrimarySanskrit(primary, include_transliteration) ==
    [text |-> primary,
     text_type |-> IF ~Truthy(primary) THEN NoneStr
                   ELSE IF include_transliteration THEN "transliteration"
                   ELSE "devanagari",
     fallback_used |-> FALSE, translate_calls |-> 0]

\* lines 746-751, fallback 1: the other Sanskrit format
DevanagariTier(s, include_transliteration, devanagari) ==
    IF ~Truthy(s.text) /\ include_transliteration
    THEN IF Truthy(devanagari)
         THEN [s EXCEPT !.text = prepare_sanskrit_text_for_tts(devanagari),
                        !.text_type = "devanagari_fallback",
                        !.fallback_used = TRUE]
         ELSE [s EXCEPT !.text = devanagari]
    ELSE s

\* lines 754-759, fallback 2: Hindi text for Sanskrit pronunciation
HindiTier(s, hindi) ==
    IF ~Truthy(s.text)
    THEN IF Truthy(hindi)
         THEN [s EXCEPT !.text = hindi,
                        !.text_type = "hindi_as_sanskrit",
                        !.fallback_used = TRUE]
         ELSE [s EXCEPT !.text = hindi]
    ELSE s

\* faulty variant (sensitivity test): the English tier is applied although an
\* earlier tier has produced text
EnglishTierAlways(s, english) ==
    IF Truthy(english)
    THEN [s EXCEPT !.text = <<"Sanskrit not available. English text: ">>
                             \o english,
                   !.text_type = "english_fallback",
                   !.fallback_used = TRUE]
    ELSE s

\* lines 762-768, fallback 3: English with a note
EnglishTier(s, english) ==
    IF ~Truthy(s.text)
    THEN IF Truthy(english)
         THEN [s EXCEPT !.text = <<"Sanskrit not available. English text: ">>
                                  \o english,
                        !.text_type = "english_fallback",
                        !.fallback_used = TRUE]
         ELSE [s EXCEPT !.text = english]
    ELSE s

\* lines 742-768: if not text and use_fallbacks, the three tiers in order.
\* Every tier calls the extractor only when the text is still missing; the
\* extractor has no effect, so its value is passed to the tier in any case.
SanskritFallbacks(verse_data, use_fallbacks, include_transliteration, s) ==
    IF ~Truthy(s.text) /\ use_fallbacks
    THEN EnglishTier(
             HindiTier(
                 DevanagariTier(s, include_transliteration,
                     extract_text_from_gita_json(verse_data, "sanskrit_devanagari")),
                 extract_text_from_gita_json(verse_data, "hindi")),
             extract_text_from_gita_json(verse_data, "english"))
    ELSE s

\* lines 730-768: the 'sa' branch up to the check of text
ResolveSanskrit(verse_data, use_fallbacks, include_transliteration) ==
    SanskritFallbacks(verse_data, use_fallbacks, include_transliteration,
        PrimarySanskrit(
            IF include_transliteration
            THEN extract_text_from_gita_json(verse_data, "sanskrit")
            ELSE extract_text_from_gita_json(verse_data, "sanskrit_devanagari"),
            include_transliteration))

\* lines 726-851: text, text_type and fallback_used of the item when the code
\* reaches its `if not text` check, and the translate_text calls made
ResolveText(verse_data, lang, use_fallbacks, include_transliteration, available, tr) ==
    IF lang = "sa" THEN
        ResolveSanskrit(verse_data, use_fallbacks, include_transliteration)
    ELSE IF lang = "hi" THEN
        LET s0 == [text |-> extract_text_from_gita_json(verse_data, "hindi"),
                   text_type |-> IF "hindi" \in DOMAIN verse_data
                                 THEN "direct" ELSE "commentary",
                   fallback_used |-> FALSE, translate_calls |-> 0]
        IN  IF ~Truthy(s0.text) /\ use_fallbacks
            THEN TranslateFromEnglish(s0, verse_data, "hi", "translated_fallback",
                                      available, tr)
            ELSE s0
    ELSE IF lang = "gu" THEN
        LET s0 == [text |-> extract_text_from_gita_json(verse_data, "gujarati"),
                   text_type |-> "direct",
                   fallback_used |-> FALSE, translate_calls |-> 0]
        IN  IF ~Truthy(s0.text)
            THEN TranslateFromEnglish(s0, verse_data, "gu", "translated", available, tr)
            ELSE s0
    ELSE
        [text |-> extract_text_from_gita_json(verse_data, "english"),
         text_type |-> IF "english" \in DOMAIN verse_data THEN "direct" ELSE "commentary",
         fallback_used |-> FALSE, translate_calls |-> 0]

\* speed, in hundredths
SpeedOf(lang) == IF lang = "sa" THEN 65 ELSE 85

\* faulty variant (sensitivity test): only the presence of the key is tested
MissingIdKey(verse_data) == "_id" \notin DOMAIN verse_data

\* line 699: not verse_data.get('_id')
MissingId(verse_data) == Get(verse_data, "_id", "") = ""

\* faulty variant (sensitivity test): the cap is off by one
TooManyVersesOffByOne(verses, max_verses) == Len(verses) >= max_verses

\* line 676
TooManyVerses(verses, max_verses) == Len(verses) > max_verses

\* lines 875-907: the result dict of an item whose synthesis returned audio_file
\* (file_size_bytes, the size of the provider's bytes, is left out)
ItemResult(verse_id, chapter_num, lang, it, audio_file) ==
    IF audio_file # NoneStr
    THEN [verse_id |-> verse_id, chapter |-> chapter_num, language |-> lang,
          text_type |-> it.text_type, voice |-> it.voice, speed |-> it.speed,
          text |-> it.text, audio_file |-> it.filename, full_path |-> audio_file,
          fallback_used |-> it.fallback_used, success |-> TRUE]
    ELSE [verse_id |-> verse_id, chapter |-> chapter_num, language |-> lang,
          text_type |-> it.text_type, voice |-> it.voice,
          error |-> "Synthesis failed",
          fallback_used |-> it.fallback_used, success |-> FALSE]

\* sorted(S) of a set of numbers: its elements in ascending order
sorted(S) ==
    CHOOSE q \in [1..Cardinality(S) -> S] :
        \A a, b \in 1..Cardinality(S) : a < b => q[a] < q[b]

\* the number of elements of a sequence that satisfy Test
CountIf(seq, Test(_)) == Cardinality({k \in 1..Len(seq) : Test(seq[k])})

Succeeded(r) == r.success
UsedFallback(r) == r.fallback_used

----------------------------------------------------------------------------
(* /batch-file: the requests of the model *)


BatchVerses ==
    { [_id |-> "BG1.1", chapter |-> 1, verse |-> 1,
       english |-> Txt("english"), hindi |-> Txt("hindi")],
      [_id |-> "BG1.2", chapter |-> 1, verse |-> 2, sanskrit |-> Txt("sanskrit"),
       english |-> Txt("english"), hindi |-> Txt("hindi"), gujarati |-> Txt("gujarati")],
      [_id |-> "BG2.1", chapter |-> 2, slok |-> Txt("slok"),
       en |-> Txt("en"), hi |-> Txt("hi"), gu |-> Txt("gu")],
      [_id |-> "BG2.2", chapter |-> 2, hi |-> EmptyStr, tej |-> [ht |-> Txt("tej.ht")]],
      [_id |-> "BG2.4", chapter |-> 2, english |-> Txt("english")],
      [_id |-> "BG3.1", chapter |-> 3],
      [_id |-> "BG3.2", chapter |-> 3, hindi |-> Txt("hindi"),
       siva |-> [sd |-> <<"dharma", Space, Pipe, Pipe, "1", Pipe, Pipe>>]],
      [chapter |-> 1, english |-> Txt("english")],
      [chapter |-> 1, tej |-> [et |-> Txt("tej.et")]] }

LangCodes == SupportedLanguages \cup {"fr"}

\* the values of max_verses for a payload of n verses: the cap that just
\* admits it and the cap that just rejects it
MaxVersesChoices(n) == {cap \in {n - 1, n} : cap >= 0}

\* a generated payload has at most this many verses: they grow half as fast
\* as the items
MaxBatchVerses == (MaxItems + 2) \div 2

\* the payloads on which detect_format_and_process raises: a verse list
\* with a number after its first verse, and a chapter whose verse is a number
MalformedPayloads ==
    << [kind |-> "list",
        val |-> <<[_id |-> "BG1.1", chapter |-> 1, verse |-> 1,
                   english |-> Txt("english"), hindi |-> Txt("hindi")], NonDict>>],
       [kind |-> "dict",
        val |-> [chapters |-> <<[chapter_number |-> 1, verses |-> <<NonDict>>]>>]] >>

\* the payloads of at most n verses: flat verse lists, a single verse object,
\* a scalar, and a body that is not JSON
BatchPayloads(n) ==
    {[kind |-> "list", val |-> vs] :
        vs \in SeqsUpTo(BatchVerses, IF n < MaxBatchVerses THEN n ELSE MaxBatchVerses)}
    \cup {[kind |-> "dict", val |-> v] : v \in BatchVerses}
    \cup {[kind |-> "other", val |-> NonDict], [kind |-> "invalid", val |-> NonDict]}

\* the request's body: one of the payloads above (k = 0) or the k-th
\* malformed payload
Body(k, n) == IF k = 0 THEN BatchPayloads(n) ELSE {MalformedPayloads[k]}

\* the languages of the end-to-end request: one verse in three languages
EndToEndLanguages == <<"en", "hi", "gu">>

LangSeqs == (SeqsUpTo(LangCodes, MaxItems) \ {<< >>}) \cup {EndToEndLanguages}

\* the requests of the model: at most MaxItems (verse, language) items, or one
\* verse in the end-to-end languages
RequestInBounds(detected, languages) ==
    \/ Len(detected) * Len(languages) <= MaxItems
    \/ (languages = EndToEndLanguages /\ Len(detected) = 1)

\* lines 661-665: detect_format_and_process raises on the parsed body
FormatError(raw_data) ==
    raw_data.kind # "invalid" /\ IsRaiseList(detect_format_and_process(raw_data))

InitBatch ==
    /\ XIdle
    /\ DIdle
    /\ VIdle
    /\ SIdle
    /\ TRANSLATION_AVAILABLE \in BOOLEAN
    /\ pc = "idle"
    /\ req = EmptyDict
    /\ verses_data = << >>
    /\ verse_i = 0
    /\ lang_j = 0
    /\ item = EmptyDict
    /\ verse_results = << >>
    /\ verse_had_issues = FALSE
    /\ all_results = << >>
    /\ verse_summaries = << >>
    /\ chapters_processed = {}
    /\ processing_stats = EmptyDict
    /\ response = EmptyDict
    /\ now = 0
    /\ trace = << >>

NoStats == [processed |-> 0, skipped |-> 0, failed |-> 0, fallbacks_used |-> 0]

\* lines 655-695: the request arrives; JSON, format and size are checked.
\* The request's play is drawn from Plays and its three other switches from
\* Switches. Lines 668-669 (the detected value is no list) are never taken:
\* every return of detect_format_and_process gives a list.
BatchRequest(Plays, Switches) ==
    /\ pc = "idle"
    /\ \E languages \in LangSeqs, play \in Plays,
          skip_missing \in Switches, use_fallbacks \in Switches,
          include_transliteration \in Switches, k \in 0..Len(MalformedPayloads) :
      \E raw_data \in Body(k, MaxItems \div Len(languages)) :
        \E detected \in {IF raw_data.kind = "invalid" \/ FormatError(raw_data)
                          THEN << >>
                          ELSE detect_format_and_process(raw_data)} :
          \E max_verses \in IF FormatError(raw_data)
                             THEN MaxVersesChoices(MaxBatchVerses)
                             ELSE MaxVersesChoices(Len(detected)) :
            /\ RequestInBounds(detected, languages)
            /\ req' = [languages |-> languages, gender |-> "female",
                       max_verses |-> max_verses, skip_missing |-> skip_missing,
                       use_fallbacks |-> use_fallbacks, play |-> play,
                       include_transliteration |-> include_transliteration]
            /\ verses_data' = detected
            /\ IF raw_data.kind = "invalid"
               THEN /\ pc' = "rejected"
                    /\ response' = [status |-> 400, detail |-> "Invalid JSON"]
                    /\ UNCHANGED processing_stats
               ELSE IF FormatError(raw_data)
               THEN /\ pc' = "rejected"
                    /\ response' = [status |-> 400, detail |-> "Error processing format"]
                    /\ UNCHANGED processing_stats
               ELSE IF TooManyVerses(detected, max_verses)
               THEN /\ pc' = "rejected"
                    /\ response' = [status |-> 400, detail |-> "Too many verses"]
                    /\ UNCHANGED processing_stats
               ELSE /\ pc' = "verse"
                    /\ processing_stats' = NoStats
                    /\ UNCHANGED response
    /\ verse_i' = 0
    /\ UNCHANGED <<xvars, dvars, vvars, svars,
                   TRANSLATION_AVAILABLE, now, lang_j, item, verse_results,
                   verse_had_issues, all_results, verse_summaries,
                   chapters_processed, trace>>

\* a request without playback (play defaults to 'false', line 673), with
\* every setting of skip_missing, use_fallbacks and transliteration
BatchFile == BatchRequest({FALSE}, BOOLEAN)

\* a request with or without playback, the other switches at their defaults
BatchFilePlay == BatchRequest(BOOLEAN, {TRUE})

\* lines 698-716: the outer loop takes the next verse
VerseStart ==
    /\ pc = "verse"
    /\ verse_i < Len(verses_data)
    /\ verse_i' = verse_i + 1
    /\ LET verse_data == verses_data[verse_i + 1] IN
       IF ~IsDict(verse_data)
       THEN \* verse_data.get raises; line 976 turns it into a 500
            /\ pc' = "error"
            /\ response' = [status |-> 500, detail |-> "Batch processing error"]
            /\ UNCHANGED <<processing_stats, chapters_processed, lang_j,
                           verse_results, verse_had_issues>>
       ELSE IF MissingId(verse_data)
       THEN /\ processing_stats' = [processing_stats EXCEPT !.skipped = @ + 1]
            /\ UNCHANGED <<pc, response, chapters_processed, lang_j,
                           verse_results, verse_had_issues>>
       ELSE /\ chapters_processed' = chapters_processed \cup {Get(verse_data, "chapter", 0)}
            /\ verse_results' = << >>
            /\ verse_had_issues' = FALSE
            /\ lang_j' = 0
            /\ pc' = "lang"
            /\ UNCHANGED <<processing_stats, response>>
    /\ UNCHANGED <<xvars, dvars, vvars, svars,
                   TRANSLATION_AVAILABLE, now, req, verses_data, item,
                   all_results, verse_summaries, trace>>

\* lines 719-867: the inner loop takes the next language, resolves its text
\* and either goes on to the next language or calls the speech provider
LangItem ==
    /\ pc = "lang"
    /\ lang_j < Len(req.languages)
    /\ lang_j' = lang_j + 1
    /\ LET verse_data == verses_data[verse_i]
           lang == StripLang(req.languages[lang_j + 1])
           Visit(kind, tr, s) ==
               Append(trace, [verse |-> verse_i, lang |-> lang_j + 1, kind |-> kind,
                              tr |-> tr, outcome |-> "-", played |-> "-",
                              text |-> s.text,
                              text_type |-> s.text_type,
                              fallback_used |-> s.fallback_used])
           unresolved == [text |-> None, text_type |-> NoneStr, fallback_used |-> FALSE]
           Called(tr, s) == IF s.translate_calls > 0 THEN tr ELSE "-"
           \* line 450 reads the clock: since the file name before this one the
           \* second is the same, or a later one
           Elapsed == IF \E k \in 1..Len(trace) : trace[k].kind = "synth"
                      THEN {0, 1} ELSE {0}
           \* lines 770-867 and their like: the item with its text resolved to s
           Resolved(verse_id, code, tr, voice, s) ==
               IF ~Truthy(s.text)
               THEN /\ verse_had_issues' = (verse_had_issues \/ req.skip_missing)
                    /\ trace' = Visit(IF req.skip_missing THEN "skipped" ELSE "missing",
                                      Called(tr, s), s)
                    /\ UNCHANGED <<pc, item, processing_stats, now>>
               ELSE /\ \E seconds \in Elapsed :
                           /\ now' = now + seconds
                           /\ item' = [text |-> s.text, text_type |-> s.text_type,
                                       fallback_used |-> s.fallback_used,
                                       voice |-> voice, speed |-> SpeedOf(code),
                                       filename |-> create_batch_filename(
                                           verse_id, code, voice, s.text_type,
                                           now + seconds)]
                    /\ processing_stats' =
                           [processing_stats EXCEPT !.fallbacks_used =
                               IF s.fallback_used THEN @ + 1 ELSE @]
                    /\ trace' = Visit("synth", Called(tr, s), s)
                    /\ pc' = "synth"
                    /\ UNCHANGED verse_had_issues
       IN
       IF lang \notin SupportedLanguages
       THEN /\ trace' = Visit("unsupported", "-", unresolved)
            /\ UNCHANGED <<pc, item, verse_had_issues, processing_stats, now>>
       ELSE \E tr \in ProviderOutcomes \ {"transliterated"} :
                Resolved(verse_data["_id"], lang, tr,
                         get_recommended_voice(lang, req.gender),
                         ResolveText(verse_data, lang, req.use_fallbacks,
                                     req.include_transliteration,
                                     TRANSLATION_AVAILABLE, tr))
    /\ UNCHANGED <<xvars, dvars, vvars, svars,
                   TRANSLATION_AVAILABLE, req, verses_data, verse_i,
                   verse_results, all_results, verse_summaries, chapters_processed,
                   response>>

\* lines 891-893: the audio is played when the request asks for it and the
\* synthesis returned a file; "-" when it is not played
Played(play, audio_file, playout) ==
    IF play /\ audio_file # NoneStr THEN play_audio_with_ffplay(audio_file, playout)
    ELSE "-"

\* lines 869-911: the speech provider answers (or not), the audio is played
\* if asked for, and the item's result is appended; an exception that leaves
\* the playback is answered by line 976
SynthReturn ==
    /\ pc = "synth"
    /\ \E outcome \in SynthOutcomes :
        LET verse_data == verses_data[verse_i]
            lang == StripLang(req.languages[lang_j])
            audio_file == synthesize_text_to_speech(item.text, item.voice, item.speed,
                                                    item.filename, lang, outcome)
            result == ItemResult(verse_data["_id"], Get(verse_data, "chapter", 0),
                                 lang, item, audio_file)
        IN  \E playout \in (IF req.play /\ audio_file # NoneStr
                             THEN PlayOutcomes ELSE {"exit0"}) :
              IF Played(req.play, audio_file, playout) = "raised"
              THEN /\ pc' = "error"
                   /\ response' = [status |-> 500, detail |-> "Batch processing error"]
                   /\ trace' = [trace EXCEPT ![Len(trace)].outcome = outcome,
                                             ![Len(trace)].played = "raised"]
                   /\ UNCHANGED <<verse_results, processing_stats>>
              ELSE /\ pc' = "lang"
                   /\ verse_results' = Append(verse_results, result)
                   /\ processing_stats' =
                          [processing_stats EXCEPT !.failed =
                              IF audio_file = NoneStr THEN @ + 1 ELSE @]
                   /\ trace' = [trace EXCEPT
                                   ![Len(trace)].outcome = outcome,
                                   ![Len(trace)].played =
                                       Played(req.play, audio_file, playout)]
                   /\ UNCHANGED response
    /\ item' = EmptyDict
    /\ UNCHANGED <<xvars, dvars, vvars, svars,
                   TRANSLATION_AVAILABLE, now, req, verses_data, verse_i,
                   lang_j, verse_had_issues, all_results, verse_summaries,
                   chapters_processed>>

\* faulty variant (sensitivity test): the results of the verse are put in
\* front of the earlier ones
VerseEndPrepends ==
    /\ pc = "lang"
    /\ lang_j = Len(req.languages)
    /\ all_results' = verse_results \o all_results
    /\ processing_stats' =
           IF verse_results # << >>
           THEN [processing_stats EXCEPT !.processed = @ + 1]
           ELSE IF verse_had_issues
           THEN [processing_stats EXCEPT !.skipped = @ + 1]
           ELSE processing_stats
    /\ verse_summaries' = Append(verse_summaries,
           [verse_id |-> verses_data[verse_i]["_id"],
            chapter |-> Get(verses_data[verse_i], "chapter", 0),
            total_languages |-> Len(verse_results),
            successful |-> CountIf(verse_results, Succeeded),
            failed |-> Len(verse_results) - CountIf(verse_results, Succeeded),
            fallbacks_used |-> CountIf(verse_results, UsedFallback)])
    /\ pc' = "verse"
    /\ UNCHANGED <<xvars, dvars, vvars, svars,
                   TRANSLATION_AVAILABLE, now, req, verses_data, verse_i,
                   lang_j, item, verse_results, verse_had_issues,
                   chapters_processed, response, trace>>

\* lines 913-932: the languages of the verse are done
VerseEnd ==
    /\ pc = "lang"
    /\ lang_j = Len(req.languages)
    /\ all_results' = all_results \o verse_results
    /\ processing_stats' =
           IF verse_results # << >>
           THEN [processing_stats EXCEPT !.processed = @ + 1]
           ELSE IF verse_had_issues
           THEN [processing_stats EXCEPT !.skipped = @ + 1]
           ELSE processing_stats
    /\ verse_summaries' = Append(verse_summaries,
           [verse_id |-> verses_data[verse_i]["_id"],
            chapter |-> Get(verses_data[verse_i], "chapter", 0),
            total_languages |-> Len(verse_results),
            successful |-> CountIf(verse_results, Succeeded),
            failed |-> Len(verse_results) - CountIf(verse_results, Succeeded),
            fallbacks_used |-> CountIf(verse_results, UsedFallback)])
    /\ pc' = "verse"
    /\ UNCHANGED <<xvars, dvars, vvars, svars,
                   TRANSLATION_AVAILABLE, now, req, verses_data, verse_i,
                   lang_j, item, verse_results, verse_had_issues,
                   chapters_processed, response, trace>>

\* lines 934-974: every verse is done; the summary is returned
Respond ==
    /\ pc = "verse"
    /\ verse_i = Len(verses_data)
    /\ response' =
           [status |-> 200, success |-> TRUE,
            processing_stats |-> processing_stats,
            verses_processed |-> processing_stats.processed,
            verses_skipped |-> processing_stats.skipped,
            chapters_covered |-> sorted(chapters_processed),
            total_files_created |-> CountIf(all_results, Succeeded),
            fallbacks_used |-> CountIf(all_results, UsedFallback),
            verse_summaries |-> verse_summaries,
            results |-> all_results,
            total_failed |-> Len(all_results) - CountIf(all_results, Succeeded)]
    /\ pc' = "done"
    /\ UNCHANGED <<xvars, dvars, vvars, svars,
                   TRANSLATION_AVAILABLE, now, req, verses_data, verse_i,
                   lang_j, item, verse_results, verse_had_issues, all_results,
                   verse_summaries, chapters_processed, processing_stats, trace>>

Next == BatchFile \/ VerseStart \/ LangItem \/ SynthReturn \/ VerseEnd \/ Respond

Spec == InitBatch /\ [][Next]_vars

\* the requests that may ask for playback
NextPlay == BatchFilePlay \/ VerseStart \/ LangItem \/ SynthReturn \/ VerseEnd \/ Respond

SpecPlay == InitBatch /\ [][NextPlay]_vars

----------------------------------------------------------------------------
(* Claims about extraction *)

\* the priority chain of spec section 4.2: direct fields, then the
\* commentators whose sub-field is consulted
ChainFields(t) ==
    CASE t = "sanskrit" -> <<"sanskrit", "transliteration", "slok", "sa">>
      [] t = "sanskrit_devanagari" -> <<"sanskrit", "slok">>
      [] t = "hindi" -> <<"hindi", "hi">>
      [] t = "gujarati" -> <<"gujarati", "gu">>
      [] t = "english" -> <<"english", "en">>

ChainSources(t) ==
    CASE t = "sanskrit" -> <<"tej", "siva", "prabhu", "rams", "sankar">>
      [] t = "sanskrit_devanagari" -> <<"tej", "siva", "prabhu", "rams", "sankar">>
      [] t = "hindi" -> <<"tej", "rams", "sankar", "siva", "prabhu">>
      [] t = "gujarati" -> <<"tej", "siva", "prabhu">>
      [] t = "english" -> <<"prabhu", "siva", "purohit", "san", "adi", "gambir", "tej">>

ChainSub(t) ==
    CASE t = "sanskrit" -> "st"
      [] t = "sanskrit_devanagari" -> "sd"
      [] t = "hindi" -> "ht"
      [] t = "gujarati" -> "gt"
      [] t = "english" -> "et"

\* the candidates of a chain, in order; a missing candidate is None
Candidates(r, t) ==
    [i \in 1..Len(ChainFields(t)) |-> Get(r, ChainFields(t)[i], None)]
    \o [i \in 1..Len(ChainSources(t)) |->
           LET c == ChainSources(t)[i] IN
           IF c \in DOMAIN r /\ IsDict(r[c]) /\ ChainSub(t) \in DOMAIN r[c]
           THEN r[c][ChainSub(t)] ELSE None]

RECURSIVE FirstNonEmpty(_)
FirstNonEmpty(cands) ==
    IF cands = << >> THEN None
    ELSE IF Truthy(Head(cands)) THEN Head(cands)
    ELSE FirstNonEmpty(Tail(cands))

\* C1: every call returns the first non-empty candidate of the chain of its
\* text_type, and returns nothing (None, or at most an empty string, which
\* the callers treat alike) only when every candidate is missing or empty.
C1_FirstNonEmptyWins ==
    xtype \in TextTypes =>
        LET want == FirstNonEmpty(Candidates(xrec, xtype))
        IN  IF Truthy(want) THEN xout = want ELSE ~Truthy(xout)

----------------------------------------------------------------------------
(* Claims about format detection *)

\* C2: the three accepted shapes of the same logical verses are detected
\* into the same flat sequence of normalised records.
C2_ShapeInvariance ==
    \A s, t \in dran \cap ShapeSlots : dout[s] = dout[t]

\* C2 witness: all three shapes were processed for a payload of at least two
\* verses in two different chapters
C2_Witness ==
    /\ ShapeSlots \subseteq dran
    /\ Len(dout["chapters"]) >= 2
    /\ \E i, j \in 1..Len(dout["chapters"]) :
           dout["chapters"][i]["chapter"] # dout["chapters"][j]["chapter"]

----------------------------------------------------------------------------
(* Claims about /batch-file *)

Started == pc \notin {"off", "idle"}

\* the results produced so far, in the order of their synthesis calls
Produced ==
    IF pc \in {"lang", "synth"} THEN all_results \o verse_results ELSE all_results

IsSynth(e) == e.kind = "synth"
IsAnswered(e) == e.kind = "synth" /\ e.outcome # "-"
\* the synthesis calls that returned, in order: Produced[k] is the result of
\* SynthDone[k]
SynthDone == SelectSeq(trace, IsAnswered)

VerseOf(e) == verses_data[e.verse]
LangOf(e) == StripLang(req.languages[e.lang])

HasText(v, t) == Truthy(FirstNonEmpty(Candidates(v, t)))
LacksId(v) == "_id" \notin DOMAIN v \/ v["_id"] = ""

FallbackTags == {"devanagari_fallback", "hindi_as_sanskrit", "english_fallback",
                 "translated_fallback", "translated"}

\* the (verse, language) index pairs of the verses 1..n that carry an _id, in
\* processing order
RECURSIVE ItemsUpTo(_)
ItemsUpTo(n) ==
    IF n = 0 THEN << >>
    ELSE ItemsUpTo(n - 1)
         \o (IF IsDict(verses_data[n]) /\ ~LacksId(verses_data[n])
             THEN [l \in 1..Len(req.languages) |-> <<n, l>>]
             ELSE << >>)

Visited == [k \in 1..Len(trace) |-> <<trace[k].verse, trace[k].lang>>]

\* C3: with use_fallbacks=False no item uses a fallback tier: no translation
\* call is made, no result has fallback_used=true or a fallback tag.
C3_NoFallbackWhenDisabled ==
    (Started /\ ~req.use_fallbacks) =>
        /\ \A k \in 1..Len(trace) : trace[k].tr = "-" /\ ~trace[k].fallback_used
        /\ \A k \in 1..Len(Produced) :
               ~Produced[k].fallback_used /\ Produced[k].text_type \notin FallbackTags

\* C4: with skip_missing=True and use_fallbacks=False, the 'gu' item of a
\* verse without Gujarati text is skipped (nothing is synthesized for it),
\* and the run goes on to visit every item.
C4_MissingGujaratiSkipped ==
    (Started /\ req.skip_missing /\ ~req.use_fallbacks) =>
        /\ \A k \in 1..Len(trace) :
               (LangOf(trace[k]) = "gu" /\ ~HasText(VerseOf(trace[k]), "gujarati"))
                   => /\ trace[k].kind = "skipped"
                      /\ pc = "done" =>
                             processing_stats.skipped
                                 > Cardinality({n \in 1..Len(verses_data) :
                                                   LacksId(verses_data[n])})
        /\ pc = "done" => Visited = ItemsUpTo(Len(verses_data))

\* C5: with skip_missing=False an item whose text stays unresolved is
\* recorded as failed: it has a failure result and is counted in
\* processing_stats.failed; the other items are still processed.
C5_UnresolvedRecordedAsFailed ==
    (pc = "done" /\ ~req.skip_missing) =>
        LET missing == Cardinality({k \in 1..Len(trace) : trace[k].kind = "missing"})
            failed_calls == Cardinality({k \in 1..Len(SynthDone) :
                                            SynthDone[k].outcome # "ok"})
        IN  /\ Visited = ItemsUpTo(Len(verses_data))
            /\ processing_stats.failed = missing + failed_calls
            /\ Len(all_results) - CountIf(all_results, Succeeded) = missing + failed_calls

\* C6 as stated: a batch with a verse record that lacks its _id is rejected
\* as a whole: nothing is synthesized and no success summary is returned.
C6_MissingIdRejectsBatch ==
    (Started /\ \E n \in 1..Len(verses_data) :
                    IsDict(verses_data[n]) /\ LacksId(verses_data[n])) =>
        /\ pc # "done"
        /\ \A k \in 1..Len(trace) : trace[k].kind # "synth"

\* C6 as amended: /batch-file does not reject a batch for a verse record that
\* lacks its _id (missing or empty). It skips that verse: the verse is counted
\* in processing_stats.skipped, no item of it is visited or synthesized and it
\* gets no summary; the other verses are processed and the success summary
\* is returned.
C6_MissingIdVerseSkipped ==
    Started =>
        LET lacking(n) == {m \in 1..n : IsDict(verses_data[m]) /\ LacksId(verses_data[m])}
        IN  /\ \A k \in 1..Len(trace) : ~LacksId(VerseOf(trace[k]))
            /\ pc \in {"verse", "lang", "synth", "done"} =>
                   processing_stats.skipped >= Cardinality(lacking(verse_i))
            /\ (pc = "rejected" /\ lacking(Len(verses_data)) # {}) =>
                   Len(verses_data) > req.max_verses
            /\ pc = "done" =>
                   /\ response.status = 200
                   /\ Visited = ItemsUpTo(Len(verses_data))
                   /\ Len(verse_summaries)
                          = Len(verses_data) - Cardinality(lacking(Len(verses_data)))

\* C6 witness: a finished batch of two verses, one without _id and skipped,
\* the other synthesized
C6_Witness ==
    /\ pc = "done"
    /\ Len(verses_data) = 2
    /\ \E n \in 1..2 : LacksId(verses_data[n])
    /\ processing_stats.skipped = 1
    /\ Len(all_results) = 1 /\ all_results[1].success

\* C7: a detected list of more than max_verses verses is rejected with HTTP
\* 400 before any verse is processed (no verse started, no item visited, no
\* translation or synthesis call, no result); a list of at most max_verses
\* verses is not rejected for its size.
C7_MaxVersesRejects ==
    Started =>
        /\ (Len(verses_data) > req.max_verses)
               <=> (pc = "rejected" /\ response.detail = "Too many verses")
        /\ pc = "rejected" =>
               /\ response.status = 400
               /\ verse_i = 0
               /\ trace = << >>
               /\ all_results = << >> /\ verse_results = << >>
               /\ verse_summaries = << >>

\* C7 witness: two verses against max_verses = 1
C7_Witness ==
    /\ pc = "rejected"
    /\ response.detail = "Too many verses"
    /\ Len(verses_data) = req.max_verses + 1

\* C8: a failed synthesis call is recorded as the failure of its own item
\* and of no other: every result is decided by its own verse, language and
\* provider answers alone, every item is visited, and the response is returned.
C8_SynthesisFailureIsolated ==
    Started =>
        /\ Len(Produced) = Len(SynthDone)
        /\ \A k \in 1..Len(SynthDone) :
               LET e == SynthDone[k]
                   r == Produced[k]
                   own == ResolveText(VerseOf(e), LangOf(e), req.use_fallbacks,
                                      req.include_transliteration,
                                      TRANSLATION_AVAILABLE, e.tr)
               IN  /\ r.success = (e.outcome = "ok")
                   /\ r.verse_id = VerseOf(e)["_id"]
                   /\ r.language = LangOf(e)
                   /\ r.text_type = own.text_type
                   /\ r.fallback_used = own.fallback_used
                   /\ r.success => r.text = own.text
        /\ processing_stats # EmptyDict =>
               processing_stats.failed
                   = Cardinality({k \in 1..Len(SynthDone) : SynthDone[k].outcome # "ok"})
        /\ pc = "done" =>
               /\ response.status = 200
               /\ Visited = ItemsUpTo(Len(verses_data))

\* C8 witness: a finished batch whose first synthesis call failed and whose
\* second succeeded
C8_Witness ==
    /\ pc = "done"
    /\ Len(SynthDone) = 2
    /\ SynthDone[1].outcome # "ok"
    /\ SynthDone[2].outcome = "ok"
    /\ ~all_results[1].success /\ all_results[2].success

\* C9: the failure recorded for a synthesis call that timed out carries a
\* reason different from the one recorded for a non-success status.
C9_TimeoutReasonDistinct ==
    \A a, b \in 1..Len(SynthDone) :
        (SynthDone[a].outcome = "timeout" /\ SynthDone[b].outcome = "http_error")
            => Produced[a].error # Produced[b].error

\* C10: with use_fallbacks=True, the 'sa' item of a verse that has no
\* Sanskrit-bearing text but has Hindi text resolves to the Hindi text,
\* tagged hindi_as_sanskrit, with fallback_used=true.
C10_HindiReadAsSanskrit ==
    (Started /\ req.use_fallbacks) =>
        \A k \in 1..Len(trace) :
            LET v == VerseOf(trace[k]) IN
            (/\ LangOf(trace[k]) = "sa"
             /\ ~HasText(v, "sanskrit") /\ ~HasText(v, "sanskrit_devanagari")
             /\ HasText(v, "hindi"))
            => /\ extract_text_from_gita_json(v, "sanskrit") = None
               /\ trace[k].kind = "synth"
               /\ trace[k].text = FirstNonEmpty(Candidates(v, "hindi"))
               /\ trace[k].text_type = "hindi_as_sanskrit"
               /\ trace[k].fallback_used

----------------------------------------------------------------------------
(* Claims about the fallback tiers of an item *)

\* the primary text of a language: step 1 of the per-item processing
PrimaryText(v, lang, include_transliteration) ==
    extract_text_from_gita_json(v,
        IF lang = "sa"
        THEN (IF include_transliteration THEN "sanskrit" ELSE "sanskrit_devanagari")
        ELSE IF lang = "hi" THEN "hindi"
        ELSE IF lang = "gu" THEN "gujarati"
        ELSE "english")

\* the disclaimer of the English tier
WithDisclaimer(english) ==
    IF Truthy(english)
    THEN <<"Sanskrit not available. English text: ">> \o english
    ELSE None

\* the text a translation tier yields: the provider answered tr ("-" when
\* it was not called)
TranslationYield(v, target, tr) ==
    IF tr = "-" THEN None
    ELSE translate_text(extract_text_from_gita_json(v, "english"), target,
                        TRANSLATION_AVAILABLE, tr)

\* the fallback tiers of a language in their order, each with the text it
\* yields for the verse and its provenance tag
FallbackTiers(v, lang, include_transliteration, tr) ==
    IF lang = "sa" THEN
        (IF include_transliteration
         THEN << [text |-> prepare_sanskrit_text_for_tts(
                               extract_text_from_gita_json(v, "sanskrit_devanagari")),
                  tag |-> "devanagari_fallback"] >>
         ELSE << >>)
        \o << [text |-> extract_text_from_gita_json(v, "hindi"),
               tag |-> "hindi_as_sanskrit"],
              [text |-> WithDisclaimer(extract_text_from_gita_json(v, "english")),
               tag |-> "english_fallback"] >>
    ELSE IF lang = "hi" THEN
        << [text |-> TranslationYield(v, "hi", tr), tag |-> "translated_fallback"] >>
    ELSE IF lang = "gu" THEN
        << [text |-> TranslationYield(v, "gu", tr), tag |-> "translated"] >>
    ELSE << >>

\* the index of the first tier that yields non-empty text, 0 when none does
FirstYield(tiers) ==
    IF \E k \in 1..Len(tiers) : Truthy(tiers[k].text)
    THEN CHOOSE k \in 1..Len(tiers) :
             /\ Truthy(tiers[k].text)
             /\ \A h \in 1..(k - 1) : ~Truthy(tiers[h].text)
    ELSE 0

\* the item of trace entry e took its text and tag from tier number n
FromTier(e, tiers, n) ==
    /\ n > 0
    /\ e.fallback_used
    /\ e.text = tiers[n].text
    /\ e.text_type = tiers[n].tag

\* C11: every item that reached synthesis has its text either from the primary
\* source (no fallback, no fallback tag) or, when the primary source is empty,
\* from exactly the first fallback tier in order that yields non-empty text,
\* with that tier's text and tag; the batch counts one fallback for it.
C11_FirstYieldingTierOnly ==
    Started =>
        /\ \A k \in 1..Len(trace) :
              IsSynth(trace[k]) =>
                  LET primary == PrimaryText(VerseOf(trace[k]), LangOf(trace[k]),
                                             req.include_transliteration)
                      tiers == FallbackTiers(VerseOf(trace[k]), LangOf(trace[k]),
                                             req.include_transliteration, trace[k].tr)
                  IN  IF Truthy(primary)
                      THEN /\ ~trace[k].fallback_used
                           /\ trace[k].text_type \notin FallbackTags
                           /\ trace[k].text = primary
                      ELSE FromTier(trace[k], tiers, FirstYield(tiers))
        /\ "fallbacks_used" \in DOMAIN processing_stats =>
              processing_stats.fallbacks_used =
                  Cardinality({k \in 1..Len(trace) :
                                  IsSynth(trace[k]) /\ trace[k].fallback_used})

\* a finished batch with a 'sa' item that took the Devanagari tier although the
\* Hindi tier had text too, and one that took the Hindi tier although the
\* English tier had text too and was synthesized
C11_Witness ==
    /\ pc = "done"
    /\ \E k \in 1..Len(trace) :
           /\ IsSynth(trace[k])
           /\ trace[k].text_type = "devanagari_fallback"
           /\ Truthy(extract_text_from_gita_json(VerseOf(trace[k]), "hindi"))
    /\ \E k \in 1..Len(trace) :
           /\ IsSynth(trace[k])
           /\ LangOf(trace[k]) = "sa"
           /\ trace[k].text_type = "hindi_as_sanskrit"
           /\ Truthy(extract_text_from_gita_json(VerseOf(trace[k]), "english"))
           /\ \E r \in 1..Len(all_results) :
                  /\ all_results[r].text_type = "hindi_as_sanskrit"
                  /\ all_results[r].success

----------------------------------------------------------------------------
(* Claim about the end-to-end request *)

\* the request of the end-to-end example: one verse with _id, English and
\* Hindi text and no Gujarati text, languages en,hi,gu, use_fallbacks=True
EndToEndRequest ==
    /\ Started
    /\ Len(verses_data) = 1
    /\ IsDict(verses_data[1])
    /\ ~LacksId(verses_data[1])
    /\ "english" \in DOMAIN verses_data[1] /\ Truthy(verses_data[1]["english"])
    /\ "hindi" \in DOMAIN verses_data[1] /\ Truthy(verses_data[1]["hindi"])
    /\ ~HasText(verses_data[1], "gujarati")
    /\ req.languages = EndToEndLanguages
    /\ req.use_fallbacks
    /\ TRANSLATION_AVAILABLE

\* every translation call so far gave a translation and every synthesis call
\* that returned gave audio
ProvidersSucceed ==
    \A k \in 1..Len(trace) :
        /\ trace[k].tr \in {"-", "translated"}
        /\ trace[k].outcome \in {"-", "ok"}

\* C12: the end-to-end request with translation and synthesis succeeding ends
\* with three successful results, en tagged direct, hi tagged direct, gu the
\* translation of the English text tagged translated, and one verse summary
\* with 3 languages, 3 successful, 0 failed and exactly 1 fallback.
C12_EndToEnd ==
    (EndToEndRequest /\ ProvidersSucceed /\ pc = "done") =>
        /\ Len(response.results) = 3
        /\ \A k \in 1..3 :
              /\ response.results[k].success
              /\ response.results[k].language = EndToEndLanguages[k]
              /\ response.results[k].verse_id = verses_data[1]["_id"]
        /\ response.results[1].text_type = "direct"
        /\ response.results[1].text = verses_data[1]["english"]
        /\ ~response.results[1].fallback_used
        /\ response.results[2].text_type = "direct"
        /\ response.results[2].text = verses_data[1]["hindi"]
        /\ ~response.results[2].fallback_used
        /\ response.results[3].text_type = "translated"
        /\ response.results[3].text =
               ProviderText(verses_data[1]["english"], "gu", "translated")
        /\ response.results[3].fallback_used
        /\ Len(response.verse_summaries) = 1
        /\ response.verse_summaries[1].total_languages = 3
        /\ response.verse_summaries[1].successful = 3
        /\ response.verse_summaries[1].failed = 0
        /\ response.verse_summaries[1].fallbacks_used = 1
        /\ response.fallbacks_used = 1
        /\ response.status = 200

\* the end-to-end request has been answered, with both providers succeeding
C12_Witness ==
    /\ EndToEndRequest
    /\ ProvidersSucceed
    /\ pc = "done"
    /\ Len(trace) = 3
    /\ trace[3].tr = "translated"

----------------------------------------------------------------------------
(* Claim about the provenance tag *)

\* the current-scheme field of a language of /batch-file
CurrentField(lang) ==
    IF lang = "hi" THEN "hindi"
    ELSE IF lang = "gu" THEN "gujarati"
    ELSE IF lang = "en" THEN "english"
    ELSE "sanskrit"

\* the text of trace entry e is the non-empty current-scheme field of its verse
FromCurrentField(e) ==
    /\ CurrentField(LangOf(e)) \in DOMAIN VerseOf(e)
    /\ Truthy(VerseOf(e)[CurrentField(LangOf(e))])
    /\ e.text = VerseOf(e)[CurrentField(LangOf(e))]

\* C13: an item is tagged 'direct' only when its text came from the
\* current-scheme field (hindi, gujarati, english) of its verse: text of a
\* legacy short field or of a nested commentator object is never tagged direct.
C13_DirectOnlyFromCurrentField ==
    Started =>
        /\ \A k \in 1..Len(trace) :
              (IsSynth(trace[k]) /\ trace[k].text_type = "direct")
                  => FromCurrentField(trace[k])
        /\ \A r \in 1..Len(Produced) :
              Produced[r].text_type = "direct" => FromCurrentField(SynthDone[r])

----------------------------------------------------------------------------
(* Claims about extraction and normalisation *)

\* the current-scheme field a text type reads first
CurrentOf(t) ==
    IF t \in {"sanskrit", "sanskrit_devanagari"} THEN "sanskrit"
    ELSE IF t = "hindi" THEN "hindi"
    ELSE IF t = "gujarati" THEN "gujarati"
    ELSE "english"

\* the legacy-scheme fields of the same language
LegacyOf(t) ==
    IF t \in {"sanskrit", "sanskrit_devanagari"} THEN {"transliteration", "slok", "sa"}
    ELSE IF t = "hindi" THEN {"hi"}
    ELSE IF t = "gujarati" THEN {"gu"}
    ELSE {"en"}

\* record r carries a non-empty current-scheme field and a legacy-scheme
\* field for the language of text type t
HasBoth(r, t) ==
    /\ CurrentOf(t) \in DOMAIN r
    /\ Truthy(r[CurrentOf(t)])
    /\ \E l \in LegacyOf(t) : l \in DOMAIN r

\* extraction from a record with both fields gives the current-scheme text
CurrentWins ==
    (xtype \in TextTypes /\ HasBoth(xrec, xtype)) => xout = xrec[CurrentOf(xtype)]

\* normalisation of a record with both fields keeps both and keeps the
\* current-scheme text, and extraction from the normalised record gives it
NormalizeKeepsCurrent ==
    (~xnorm /\ xnorm') =>
        \A t \in TextTypes :
            HasBoth(xrec, t) =>
                /\ HasBoth(xrec', t)
                /\ xrec'[CurrentOf(t)] = xrec[CurrentOf(t)]
                /\ extract_text_from_gita_json(xrec', t) = xrec[CurrentOf(t)]

\* C14: for a record with both a non-empty current-scheme field and a
\* legacy-scheme field of the same language, extraction returns the text of
\* the current-scheme field, before and after convert_to_internal_format.
C14_CurrentSchemePreferred == []CurrentWins /\ [][NormalizeKeepsCurrent]_vars

\* a normalised record with non-empty hindi and hi, and one with non-empty
\* sanskrit and slok, extracted to the current-scheme text
C14_Witness ==
    /\ xnorm
    /\ xtype \in {"hindi", "sanskrit"}
    /\ HasBoth(xrec, xtype)
    /\ \E l \in LegacyOf(xtype) : l \in DOMAIN xrec /\ Truthy(xrec[l])
    /\ xout = xrec[CurrentOf(xtype)]
    /\ xout # None

\* C16: a record that exposes any legacy nested-commentary key (tej, siva,
\* prabhu, rams, sankar, purohit, san, adi, gambir) passes through
\* normalisation unchanged, with all its keys, so every text type is extracted
\* from the normalised record as from the original.
C16_AnyCommentaryKeyPassesThrough ==
    [][(~xnorm /\ xnorm' /\ \E c \in Commentators : c \in DOMAIN xrec) =>
          /\ xrec' = xrec
          /\ \A t \in TextTypes :
                 extract_text_from_gita_json(xrec', t)
                     = extract_text_from_gita_json(xrec, t)]_vars

----------------------------------------------------------------------------
(* Claims about the probing order and the other cases of format detection *)

\* slot s is processed by this step
Detected(s) == s \in DOMAIN din /\ s \notin dran /\ s \in dran'

\* payload p is a non-empty list whose first element is a mapping
ListOfMappings(p) == p.kind = "list" /\ p.val # << >> /\ IsDict(p.val[1])

\* slot s is processed by this step and the call returns a list
Returned(s) == Detected(s) /\ ~IsRaiseList(dout'[s])

\* slot s is given to flatten_chapter_format by this step, which returns
Flattened(s) ==
    s \in DOMAIN din /\ s \notin fran /\ s \in fran' /\ ~IsRaiseList(fout'[s])

\* one normalised record per element of the list, in order
ElementWise(list) == [i \in 1..Len(list) |-> convert_to_internal_format(list[i])]

\* the (group, verse) positions of the verses nested in the groups, in order
RECURSIVE NestedPositions(_, _)
NestedPositions(groups, g) ==
    IF g > Len(groups) THEN << >>
    ELSE [i \in 1..Len(Get(groups[g], "verses", << >>)) |-> <<g, i>>]
         \o NestedPositions(groups, g + 1)

\* out is the chapter-grouped reading of the list: the nested verses in order,
\* each given its group's chapter number and normalised
GroupedReading(out, groups) ==
    /\ Len(out) = Len(NestedPositions(groups, 1))
    /\ \A k \in 1..Len(out) :
           LET g == NestedPositions(groups, 1)[k][1]
               i == NestedPositions(groups, 1)[k][2]
           IN  out[k] = convert_to_internal_format(
                            ("chapter" :> Get(groups[g], "chapter", 0))
                            @@ groups[g]["verses"][i])

\* out is the nested verses in order, each given its group's chapter number,
\* none normalised
StampedReading(out, groups) ==
    /\ Len(out) = Len(NestedPositions(groups, 1))
    /\ \A k \in 1..Len(out) :
           LET g == NestedPositions(groups, 1)[k][1]
               i == NestedPositions(groups, 1)[k][2]
           IN  out[k] = ("chapter" :> Get(groups[g], "chapter", 0))
                            @@ groups[g]["verses"][i]

\* C15 as stated: a list whose first element contains _id is read as a flat
\* verse list, one normalised record per element in order, also when that
\* element contains chapter and verses too; the chapter-grouped reading is
\* used only when the first element has chapter and verses and no _id.
C15_IdFirstThenGrouped ==
    [][\A s \in DOMAIN din :
          (Returned(s) /\ ListOfMappings(din[s])) =>
              IF "_id" \in DOMAIN din[s].val[1]
              THEN dout'[s] = ElementWise(din[s].val)
              ELSE IF {"chapter", "verses"} \subseteq DOMAIN din[s].val[1]
              THEN GroupedReading(dout'[s], din[s].val)
              ELSE dout'[s] = ElementWise(din[s].val)]_vars

\* C15 amended: for a list whose first element is a mapping, and for the
\* calls that return, in detect_format_and_process the chapter-grouped reading
\* comes first. A list whose first element contains chapter and verses is
\* read as chapter groups, whether or not that element contains _id; every
\* other such list is read as a flat verse list, convert_to_internal_format
\* applied to each element in order. flatten_chapter_format has the stated order, and
\* normalises nothing: a list whose first element contains _id is returned as
\* it is, a list whose first element has chapter and verses and no _id gives
\* its nested verses with their group's chapter number, any other list is
\* returned as it is. Both for the calls that return.
C15_GroupedFirstThenId ==
    [][\A s \in DOMAIN din :
          /\ (Returned(s) /\ ListOfMappings(din[s])) =>
                 IF {"chapter", "verses"} \subseteq DOMAIN din[s].val[1]
                 THEN GroupedReading(dout'[s], din[s].val)
                 ELSE dout'[s] = ElementWise(din[s].val)
          /\ (Flattened(s) /\ ListOfMappings(din[s])) =>
                 IF "_id" \in DOMAIN din[s].val[1]
                 THEN fout'[s] = din[s].val
                 ELSE IF {"chapter", "verses"} \subseteq DOMAIN din[s].val[1]
                 THEN StampedReading(fout'[s], din[s].val)
                 ELSE fout'[s] = din[s].val]_vars

\* a list of chapter documents that carry _id was read as chapter groups by
\* detect_format_and_process, which gave the verses of two chapters, and
\* returned as it was by flatten_chapter_format
C15_Witness ==
    /\ "documents" \in dran
    /\ "documents" \in fran
    /\ fout["documents"] = din["documents"].val
    /\ Len(din["documents"].val) = 2
    /\ "_id" \in DOMAIN din["documents"].val[1]
    /\ Len(dout["documents"]) >= 2
    /\ \E i, j \in 1..Len(dout["documents"]) :
           dout["documents"][i]["chapter"] # dout["documents"][j]["chapter"]
    /\ \A i \in 1..Len(dout["documents"]) :
           dout["documents"][i]["_id"] \notin {"CH1", "CH2"}

\* the nested verse after is the verse before with only its chapter key
\* written: the parent's chapter number
OnlyChapterWritten(after, before, chapter_num) ==
    /\ DOMAIN after = DOMAIN before \cup {"chapter"}
    /\ after["chapter"] = chapter_num
    /\ \A k \in DOMAIN before \ {"chapter"} : after[k] = before[k]

\* the chapter groups after are the groups before, but for the chapter key of
\* their nested verses: written into every nested verse when the call
\* returned, into none or some of them when it raised
GroupsKept(after, before, num_key, default, returned) ==
    /\ Len(after) = Len(before)
    /\ \A g \in 1..Len(before) :
           /\ DOMAIN after[g] = DOMAIN before[g]
           /\ \A k \in DOMAIN before[g] \ {"verses"} : after[g][k] = before[g][k]
           /\ "verses" \in DOMAIN before[g] =>
                  /\ Len(after[g]["verses"]) = Len(before[g]["verses"])
                  /\ \A i \in 1..Len(before[g]["verses"]) :
                         \/ /\ IsDict(before[g]["verses"][i])
                            /\ OnlyChapterWritten(after[g]["verses"][i],
                                                  before[g]["verses"][i],
                                                  Get(before[g], num_key, default))
                         \/ /\ ~returned
                            /\ after[g]["verses"][i] = before[g]["verses"][i]

\* C17: detect_format_and_process leaves its input as it was, but for the
\* chapter key of verses nested in chapter groups, which holds the parent's
\* chapter number afterwards: a chapters-keyed object and a chapter-grouped
\* list keep every other key, and every other payload is unchanged. A call
\* that raises has written that key into the verses it came to, and nothing
\* else.
C17_OnlyChapterStamped ==
    [][\A s \in DOMAIN din :
          Detected(s) =>
              IF din[s].kind = "dict" /\ "chapters" \in DOMAIN din[s].val
              THEN /\ din'[s].kind = "dict"
                   /\ DOMAIN din'[s].val = DOMAIN din[s].val
                   /\ \A k \in DOMAIN din[s].val \ {"chapters"} :
                          din'[s].val[k] = din[s].val[k]
                   /\ GroupsKept(din'[s].val["chapters"], din[s].val["chapters"],
                                 "chapter_number", 1, ~IsRaiseList(dout'[s]))
              ELSE IF /\ ListOfMappings(din[s])
                      /\ {"chapter", "verses"} \subseteq DOMAIN din[s].val[1]
              THEN /\ din'[s].kind = "list"
                   /\ GroupsKept(din'[s].val, din[s].val, "chapter", 0,
                                 ~IsRaiseList(dout'[s]))
              ELSE din'[s] = din[s]]_vars

\* every shape was processed: the flat list of two or more verses was
\* normalised into new records, and a nested verse of the grouped list carries
\* its group's chapter number and still has its unrecognised key
C17_Witness ==
    /\ ShapeSlots \subseteq dran
    /\ Len(din["flat"].val) >= 2
    /\ dout["flat"] # din["flat"].val
    /\ \E g \in 1..Len(din["grouped"].val) :
           \E i \in 1..Len(din["grouped"].val[g]["verses"]) :
               /\ din["grouped"].val[g]["verses"][i]["chapter"]
                      = din["grouped"].val[g]["chapter"]
               /\ "note" \in DOMAIN din["grouped"].val[g]["verses"][i]

\* payload p is a non-empty list whose first element is not a mapping
ListOfOthers(p) == p.kind = "list" /\ p.val # << >> /\ ~IsDict(p.val[1])

\* C18 as stated: for a scalar and for a list whose first element is not a
\* mapping the result is a one-element sequence whose single element is the
\* input value unchanged (for a list: the list itself, which is not its own
\* first element).
C18_OtherInputWrapped ==
    [][\A s \in DOMAIN din :
          Detected(s) =>
              /\ din[s].kind = "other" => dout'[s] = <<din[s].val>>
              /\ ListOfOthers(din[s]) =>
                     /\ Len(dout'[s]) = 1
                     /\ dout'[s][1] # din[s].val[1]
                     /\ dout'[s][1] = din[s].val]_vars

\* C18 amended: a scalar is wrapped, the result is a one-element sequence
\* whose single element is the input value; a list whose first element is not
\* a mapping is returned as it is, the result is the input list itself, not
\* wrapped; the input is unchanged in both cases.
C18_ScalarWrappedListReturned ==
    [][\A s \in DOMAIN din :
          Detected(s) =>
              /\ din[s].kind = "other" =>
                     (dout'[s] = <<din[s].val>> /\ din'[s] = din[s])
              /\ ListOfOthers(din[s]) =>
                     (dout'[s] = din[s].val /\ din'[s] = din[s])]_vars

\* a list of two elements that begins with a scalar was returned as it is
C18_Witness ==
    /\ "odd" \in dran
    /\ ListOfOthers(din["odd"])
    /\ Len(din["odd"].val) = 2
    /\ dout["odd"] = din["odd"].val

----------------------------------------------------------------------------
(* Claims about the order of processing and the translation provider *)

\* item a = <<verse index, language index>> comes before item b
Before(a, b) == a[1] < b[1] \/ (a[1] = b[1] /\ a[2] < b[2])

\* the indices of the verses 1..n that carry an _id, in ascending order
RECURSIVE VersesWithId(_)
VersesWithId(n) ==
    IF n = 0 THEN << >>
    ELSE VersesWithId(n - 1)
         \o (IF IsDict(verses_data[n]) /\ ~LacksId(verses_data[n])
             THEN <<n>> ELSE << >>)

\* the verses whose languages are all done
VersesDone == IF pc \in {"lang", "synth"} THEN verse_i - 1 ELSE verse_i

\* the synthesis calls that have not returned
InProgress == {k \in 1..Len(trace) : IsSynth(trace[k]) /\ trace[k].outcome = "-"}

\* C19: items are visited in ascending (verse index, language index) order;
\* the synthesis calls, the results and the verse summaries follow that
\* order, and at most one synthesis call, the latest, is in progress.
C19_InputOrder ==
    Started =>
        /\ \A k \in 1..(Len(trace) - 1) :
               Before(<<trace[k].verse, trace[k].lang>>,
                      <<trace[k + 1].verse, trace[k + 1].lang>>)
        /\ LET calls == SynthDone
                results == Produced
           IN  /\ Len(results) = Len(calls)
               /\ \A k \in 1..Len(results) :
                      /\ results[k].verse_id = VerseOf(calls[k])["_id"]
                      /\ results[k].language = LangOf(calls[k])
        /\ LET done == VersesWithId(VersesDone)
           IN  /\ Len(verse_summaries) = Len(done)
               /\ \A k \in 1..Len(verse_summaries) :
                      verse_summaries[k].verse_id = verses_data[done[k]]["_id"]
        /\ Cardinality(InProgress) <= 1
        /\ InProgress \subseteq {Len(trace)}
        /\ (InProgress # {}) <=> (pc = "synth")
        /\ pc = "done" =>
               /\ response.results = all_results
               /\ response.verse_summaries = verse_summaries

\* a finished batch of two verses with one result each, of different verses
C19_Witness ==
    /\ pc = "done"
    /\ Len(verses_data) = 2
    /\ Len(response.results) = 2
    /\ response.results[1].verse_id # response.results[2].verse_id
    /\ Len(response.verse_summaries) = 2
    /\ response.verse_summaries[1].verse_id = response.results[1].verse_id

\* texts handed to translate_text: the English texts of the model and two
\* phrases of the override tables
TranslateInputs ==
    {Txt("english"), Txt("en"), Txt("tej.et"), <<"Hello", Space, "World">>, <<"yes">>}

\* translate_text gives back its input when translation is unavailable and
\* when the provider raises
TranslateFallsBack ==
    \A text \in TranslateInputs, target \in LangCodes :
        /\ \A tr \in ProviderOutcomes :
               translate_text(text, target, FALSE, tr) = text
        /\ translate_text(text, target, TRUE, "raises") = text

\* Visited is the beginning of the items of the batch, in order
VisitedInOrder ==
    LET items == ItemsUpTo(Len(verses_data)) IN
    /\ Len(trace) <= Len(items)
    /\ \A k \in 1..Len(trace) : <<trace[k].verse, trace[k].lang>> = items[k]

\* C20: whatever the translation provider does, translate_text returns a
\* value: its input when the provider raises or translation is unavailable.
\* The item of a failed or unchanged translation goes on to synthesis with the
\* English text, the batch is not aborted (only a payload that is not a list
\* of mappings ends in the 500 answer), the following items are visited in
\* order and the finished batch has visited every item.
C20_TranslationOutcomesTolerated ==
    /\ TranslateFallsBack
    /\ Started =>
           /\ \A k \in 1..Len(trace) :
                  /\ trace[k].tr \in {"raises", "unchanged"} =>
                         /\ IsSynth(trace[k])
                         /\ trace[k].text =
                                extract_text_from_gita_json(VerseOf(trace[k]), "english")
                  /\ (trace[k].tr # "-" /\ ~IsSynth(trace[k])) => trace[k].tr = "empty"
           /\ pc = "error" => ~IsDict(verses_data[verse_i])
           /\ VisitedInOrder
           /\ pc = "done" =>
                  /\ response.status = 200
                  /\ Visited = ItemsUpTo(Len(verses_data))

\* a finished batch whose first item had its translation fail, was synthesized
\* with the English text, and was followed by a second item
C20_Witness ==
    /\ pc = "done"
    /\ Len(trace) = 2
    /\ trace[1].tr = "raises"
    /\ IsSynth(trace[1])
    /\ trace[1].text = extract_text_from_gita_json(VerseOf(trace[1]), "english")
    /\ trace[1].outcome = "ok"
    /\ Len(response.results) >= 1
    /\ response.results[1].success
    /\ response.results[1].text = trace[1].text
    /\ IsSynth(trace[2])

----------------------------------------------------------------------------
(* Claim about the empty input of format detection *)

\* the payload of slot s is the empty list
EmptyListIn(s) == din[s].kind = "list" /\ Len(din[s].val) = 0

\* C24: an empty input sequence is normalised to an empty sequence and is not
\* an error: once detect_format_and_process ran on the empty list, the list it
\* returned is empty, and the caller's payload is still the empty list.
C24_EmptyInputEmptyOutput ==
    \A s \in dran : EmptyListIn(s) => Len(dout[s]) = 0

\* detection ran on the empty list and returned the empty list
C24_Witness ==
    \E s \in dran : EmptyListIn(s) /\ Len(dout[s]) = 0

----------------------------------------------------------------------------
(* Claims about the nested commentaries and about normalisation *)

\* record r has none of the direct and legacy fields of text type t
NoDirectField(r, t) ==
    \A i \in 1..Len(ChainFields(t)) : ChainFields(t)[i] \notin DOMAIN r

\* the entry of commentator c in r is a mapping that carries sub-field sub
Carries(r, c, sub) == c \in DOMAIN r /\ IsDict(r[c]) /\ sub \in DOMAIN r[c]

\* the places, in the documented source order of t, of the commentators of r
\* that carry the sub-field of t
Carriers(r, t) ==
    {i \in 1..Len(ChainSources(t)) : Carries(r, ChainSources(t)[i], ChainSub(t))}

\* C26: with no direct or legacy field of the text type in the record, a call
\* returns the sub-field text of the earliest commentator, in the documented
\* source order of the text type, whose entry is a mapping that carries the
\* sub-field; entries that are not mappings are passed over, and with no
\* carrier nothing is returned.
C26_EarliestCommentatorWins ==
    (xtype \in TextTypes /\ NoDirectField(xrec, xtype)) =>
        LET carriers == Carriers(xrec, xtype) IN
        IF carriers = {} THEN xout = None
        ELSE \E i \in carriers :
                 /\ \A j \in carriers : i <= j
                 /\ xout = xrec[ChainSources(xtype)[i]][ChainSub(xtype)]

\* two commentators carry the sub-field with different non-empty texts and
\* the call returned the text of the earlier one
C26_Witness ==
    /\ xtype \in TextTypes
    /\ NoDirectField(xrec, xtype)
    /\ \E i, j \in Carriers(xrec, xtype) :
           /\ i < j
           /\ \A k \in Carriers(xrec, xtype) : i <= k
           /\ Truthy(xrec[ChainSources(xtype)[i]][ChainSub(xtype)])
           /\ Truthy(xrec[ChainSources(xtype)[j]][ChainSub(xtype)])
           /\ xout = xrec[ChainSources(xtype)[i]][ChainSub(xtype)]
           /\ xout # xrec[ChainSources(xtype)[j]][ChainSub(xtype)]

\* this step normalises the record of the extraction harness
Normalized == ~xnorm /\ xnorm'

\* C27: normalisation preserves extraction: for every verse record and every
\* text type, the text extracted from the normalised record equals the text
\* extracted from the record itself.
C27_NormalizationPreservesExtraction ==
    [][Normalized =>
          \A t \in TextTypes :
              extract_text_from_gita_json(xrec', t)
                  = extract_text_from_gita_json(xrec, t)]_vars

----------------------------------------------------------------------------
(* Claims about unsupported codes, the verse statistics and the audio files *)

\* the codes a request may name
ClaimedLanguages == {"sa", "hi", "gu", "en"}

Unsupported(e) == LangOf(e) \notin ClaimedLanguages

\* the visit e of an item is what the text resolution of its own verse and
\* language gives
ResolvedAlone(e) ==
    LET own == ResolveText(VerseOf(e), LangOf(e), req.use_fallbacks,
                           req.include_transliteration, TRANSLATION_AVAILABLE, e.tr)
    IN  /\ e.kind = (IF Truthy(own.text) THEN "synth"
                     ELSE IF req.skip_missing THEN "skipped" ELSE "missing")
        /\ e.text = own.text
        /\ e.text_type = own.text_type

\* C23: an unsupported language code skips only its own (verse, language)
\* item: no text is extracted, translated or synthesized for it and it gets no
\* result; the item after it is resolved from its own verse and language as
\* if the code had not been there, every item of the batch is visited and the
\* success summary is returned.
C23_UnsupportedLanguageSkipsItem ==
    Started =>
        /\ \A k \in 1..Len(trace) :
               Unsupported(trace[k]) =>
                   /\ trace[k].kind = "unsupported"
                   /\ trace[k].text = None
                   /\ trace[k].tr = "-"
                   /\ k < Len(trace) => /\ Before(Visited[k], Visited[k + 1])
                                        /\ \/ Unsupported(trace[k + 1])
                                           \/ ResolvedAlone(trace[k + 1])
        /\ \A k \in 1..Len(Produced) : Produced[k].language \in ClaimedLanguages
        /\ Len(Produced) = Len(SynthDone)
        /\ pc = "done" =>
               /\ response.status = 200
               /\ Visited = ItemsUpTo(Len(verses_data))

\* a finished batch that named an unsupported code before a supported one:
\* the first item has no result, the second was synthesized
C23_Witness ==
    /\ pc = "done"
    /\ Len(trace) = 2
    /\ Unsupported(trace[1])
    /\ trace[1].verse = trace[2].verse
    /\ trace[2].kind = "synth" /\ trace[2].outcome = "ok"
    /\ Len(all_results) = 1
    /\ all_results[1].success
    /\ all_results[1].language = LangOf(trace[2])

\* C28: in every completed run each input verse is counted exactly once in the
\* verse-level statistics: processed + skipped equals the number of verses of
\* the detected list.
C28_EveryVerseCountedOnce ==
    pc = "done" =>
        processing_stats.processed + processing_stats.skipped = Len(verses_data)

\* C29: distinct successful items never share an output audio file: the
\* recorded audio files of any two successful results of a batch differ.
C29_AudioFilesDistinct ==
    \A a, b \in 1..Len(Produced) :
        (a # b /\ Produced[a].success /\ Produced[b].success)
            => /\ Produced[a].audio_file # Produced[b].audio_file
               /\ Produced[a].full_path # Produced[b].full_path

----------------------------------------------------------------------------
(* Claim about voice selection *)

\* the first entries of the language/gender lists
FirstVoices ==
    [en |-> [male |-> "ravi", female |-> "anushka"],
     hi |-> [male |-> "amitabh", female |-> "madhuri"],
     gu |-> [male |-> "ramesh", female |-> "asha"],
     sa |-> [male |-> "amitabh", female |-> "madhuri"]]

\* the languages that have lists in the table of the service
ListedLanguages(service) ==
    IF service = "narakeet_tts" THEN {"en", "hi", "gu", "sa"} ELSE {"en", "hi", "sa"}

\* every call returned the same voice
SameVoiceEveryCall == \A j, k \in 1..Len(vout) : vout[j] = vout[k]

\* C21 as stated: in either service, for every language of en, hi, gu, sa and
\* gender of male, female a call returns the first entry of the list of that
\* language and gender; two calls with the same arguments return the same
\* voice; an unknown language uses the 'en' lists and an unknown gender yields
\* 'amy'.
C21_FirstVoiceOfEveryLanguage ==
    /\ SameVoiceEveryCall
    /\ \A k \in 1..Len(vout) :
           IF vcall.gender \notin {"male", "female"} THEN vout[k] = "amy"
           ELSE IF vcall.language \in {"en", "hi", "gu", "sa"}
           THEN vout[k] = FirstVoices[vcall.language][vcall.gender]
           ELSE vout[k] = FirstVoices["en"][vcall.gender]

\* C21, amended: for every language that has lists in the table of the
\* service asked (en, hi, gu, sa in narakeet_tts; en, hi, sa in
\* narakeet_tts_ffplay) and gender of male, female a call returns the first
\* entry of the list of that language and gender; two calls with the same
\* arguments return the same voice; a language without lists in that table
\* uses the 'en' lists and an unknown gender yields 'amy'.
C21_FirstVoiceOfListedLanguage ==
    /\ SameVoiceEveryCall
    /\ \A k \in 1..Len(vout) :
           IF vcall.gender \notin {"male", "female"} THEN vout[k] = "amy"
           ELSE IF vcall.language \in ListedLanguages(vcall.service)
           THEN vout[k] = FirstVoices[vcall.language][vcall.gender]
           ELSE vout[k] = FirstVoices["en"][vcall.gender]

\* two calls for Gujarati, male, of the batch service returned the first
\* entry of the Gujarati list, which is no entry of the 'en' lists
C21_Witness ==
    /\ vcall = [service |-> "narakeet_tts", language |-> "gu", gender |-> "male"]
    /\ Len(vout) = 2
    /\ vout[1] = "ramesh" /\ vout[2] = "ramesh"

----------------------------------------------------------------------------
(* Claims about POST /synthesize/verse of the cloud-TTS service *)

\* the request was answered
Answered == sresp # EmptyDict

\* the object of the requested author in the verse of the request, {} when
\* the verse has no entry for the author
AuthorData == Get(sreq.verse_data, sreq.author, EmptyDict)

\* the texts of the author object in the order of their priority
AuthorCandidates(obj) == <<Get(obj, "et", None), Get(obj, "ht", None), Get(obj, "sc", None)>>

\* the author object has a non-empty text
HasAuthorText(obj) == IsDict(obj) /\ \E k \in 1..3 : Truthy(AuthorCandidates(obj)[k])

\* C25: with a TTS client, a verse whose object for the requested author has
\* a non-empty text and a synthesis that succeeds, the response is 200 with
\* the provider's audio, and the one synthesis call speaks the first non-empty
\* text of `et`, `ht`, `sc` of that object.
C25_VerseSynthesizedByPriority ==
    (Answered /\ tts_client # NoneStr /\ HasAuthorText(AuthorData)
        /\ sreq.provider = "ok") =>
        /\ sresp.status = 200
        /\ sresp.body = "audio"
        /\ Len(scalls) = 1
        /\ scalls[1].input
               = create_natural_ssml(
                     FullText(sreq.verse_data, sreq.language,
                              FirstNonEmpty(AuthorCandidates(AuthorData))),
                     sreq.language)

\* a request answered 200 for an author whose `et` is empty and whose `ht`
\* and `sc` hold text: the Hindi text was spoken
C25_Witness ==
    /\ Answered
    /\ sresp.status = 200
    /\ HasAuthorText(AuthorData)
    /\ DOMAIN AuthorData = {"et", "ht", "sc"}
    /\ AuthorData["et"] = EmptyStr
    /\ AuthorData["ht"] = AuthorTexts["ht"]
    /\ AuthorData["sc"] = AuthorTexts["sc"]
    /\ Len(scalls) = 1
    /\ scalls[1].input
           = create_natural_ssml(
                 FullText(sreq.verse_data, sreq.language, AuthorTexts["ht"]),
                 sreq.language)

\* C30: with a TTS client and a verse that has no non-empty `et`, `ht` or
\* `sc` text for the requested author, the response is 400 (not 500) and no
\* synthesis call is made.
C30_NoTextAnswered400 ==
    (Answered /\ tts_client # NoneStr /\ ~HasAuthorText(AuthorData)) =>
        /\ sresp.status = 400
        /\ scalls = << >>

----------------------------------------------------------------------------
(* Claim about audio playback *)

PlayMessages == {"Audio playback completed successfully", "ffplay error",
                 "Audio playback timed out", "Error: ffplay not found",
                 "Error playing audio"}

\* the result r recorded for the answered synthesis call e is the one a
\* request without playback records
RecordedAsUnplayed(e, r) ==
    /\ r.success = (e.outcome = "ok")
    /\ r.verse_id = VerseOf(e)["_id"]
    /\ r.language = LangOf(e)
    /\ r.text_type = e.text_type
    /\ r.fallback_used = e.fallback_used
    /\ r.voice = FirstVoices[LangOf(e)][req.gender]
    /\ r.success => /\ r.text = e.text
                    /\ r.full_path = OUTPUT_DIR \o "/" \o r.audio_file

\* C22: playback is a pure side effect on the recorded result: ffplay is run
\* exactly for the synthesized items of a request with play=true, and whether
\* it exits with 0 or not, times out or is missing, no exception leaves it:
\* the item's result is recorded as without playback, the next item is
\* resolved from its own verse and language, every item is visited and the
\* success summary is returned.
C22_PlaybackIsSideEffect ==
    Started =>
        /\ \A k \in 1..Len(trace) :
               /\ trace[k].played \in PlayMessages \cup {"-"}
               /\ trace[k].played # "-" <=> (req.play /\ trace[k].outcome = "ok")
               /\ (trace[k].played # "-" /\ k < Len(trace)) =>
                      /\ Before(Visited[k], Visited[k + 1])
                      /\ \/ Unsupported(trace[k + 1])
                         \/ ResolvedAlone(trace[k + 1])
        /\ Len(Produced) = Len(SynthDone)
        /\ \A k \in 1..Len(SynthDone) : RecordedAsUnplayed(SynthDone[k], Produced[k])
        /\ pc = "error" => ~IsDict(verses_data[verse_i])
        /\ pc = "done" =>
               /\ response.status = 200
               /\ Visited = ItemsUpTo(Len(verses_data))

\* a finished request with play=true: the playback of its first item timed
\* out, ffplay was missing for the second, and both results are successes
C22_Witness ==
    /\ pc = "done"
    /\ req.play
    /\ Len(trace) = 2
    /\ trace[1].played = "Audio playback timed out"
    /\ trace[2].played = "Error: ffplay not found"
    /\ Len(all_results) = 2
    /\ all_results[1].success /\ all_results[2].success
    /\ response.total_files_created = 2

============================================================================
